---- MODULE Spec2Model ----
(***************************************************************************)
(* Model of the AI Prompt Manager extension: the chunked prompt store      *)
(* (storageManager.js), the local backup manager (modules/backup-          *)
(* manager.js) and the popup handlers that drive them (popup-main.js,      *)
(* modules/prompt-operations.js).                                          *)
(*                                                                         *)
(* Representation.  A JavaScript string that the code only compares,       *)
(* prefixes, splits or concatenates is a sequence of tokens:               *)
(*   - a prompt text is a sequence of characters;                          *)
(*   - a title is a sequence of characters and suffix tokens;              *)
(*   - an id is <<t>> (Date.now().toString()) or <<t, r>> (the import id   *)
(*     t + '-' + random), timestamps all having the same number of digits; *)
(*   - a storage key is <<"prompt_">> \o id, followed for a chunk by       *)
(*     <<"_chunk_", index>>.                                               *)
(* startsWith, includes, split and substring are the operators below on    *)
(* these sequences.  A stored value is a record: an object keeps its own   *)
(* fields, a stored string s is [str |-> s], so that hasOwnProperty and    *)
(* typeof are tests on the record's domain.                                *)
(*                                                                         *)
(* Sizes are scaled: MAX_CHUNK_LENGTH is 3 characters instead of 7000 and  *)
(* QUOTA_BYTES_PER_ITEM 16 bytes instead of 8192, which keeps the two      *)
(* properties the code relies on (a full chunk of one-byte characters      *)
(* fits an item, a full chunk of multi-byte characters does not).          *)
(***************************************************************************)
EXTENDS Integers, Sequences, FiniteSets, TLC

VARIABLES
    store,             \* chrome.storage.sync: key -> value
    local,             \* chrome.storage.local: the backup index and bodies
    currentPrompts,    \* popup-main.js: in-memory cache of the prompt list
    currentEditingId,  \* popup-main.js: id being edited, NoId when none
    view,              \* the document: style.display of its elements, by element id
    lastOp,            \* the call that completed last, with its outcome
    faulted,           \* whether some storage-manager call has failed
    steps,             \* the number of popup handlers that have run
    clock,             \* Date.now(), in half days
    indexed,           \* the day keys backupToday was called for directly, with their last timestamp
    exportedFile,      \* the file handleExportPrompts downloaded last, <<>> when none
    inFlight,          \* the asynchronous calls suspended at an await, each with its position and locals
    moreImages,        \* the editor element: the src of its img elements after the first
    pendingImageForCopy,       \* background.js: the worker's slot, <<>> when null
    workerReachable,           \* whether chrome.runtime.sendMessage reaches the worker
    msgs,                      \* the requests sent to the worker's listener directly, since it started
    stagedAtCopy,              \* the image staged when a copy last handed one to the worker
    selectedSystemPromptText,  \* popup-main.js: text of the selected prompt, <<>> when ''
    selectedPromptTitle,       \* the title element of the INPUT view
    userInput,                 \* the editor element: its text and the src of its img element
    currentPastedImageBase64,  \* popup-main.js: data URI of the processed image, <<>> when null
    locallyStagedImage,        \* popup-main.js: the staged image, <<>> when its fields are null
    pendingButton,             \* the copy-pending-image button of the document, <<>> when absent
    clipboard,                 \* the ClipboardItem written last, <<>> when none
    lastVersionCheck,          \* chrome.storage.local: lastVersionCheck_<name>, 0 when unset
    checks,                    \* the version checks made since the clock last moved
    checkInterval,             \* version-checker.js: this.checkIntervalHours of the worker's instance
    latestVersion,             \* chrome.storage.local: latestVersion_<name>, <<>> when unset
    badge                      \* the badge text of the extension icon, <<>> when none

timeVars == <<clock, indexed>>
workerVars == <<pendingImageForCopy, workerReachable, msgs, stagedAtCopy>>
editorVars == <<selectedSystemPromptText, selectedPromptTitle, userInput,
                currentPastedImageBase64, locallyStagedImage>>
versionVars == <<lastVersionCheck, checks, checkInterval, latestVersion, badge>>
\* what the storage manager and the backup manager leave alone
sessionVars == <<timeVars, exportedFile, inFlight, moreImages, workerVars, editorVars, pendingButton, clipboard, versionVars>>

vars == <<store, local, currentPrompts, currentEditingId, view, lastOp, faulted, steps, sessionVars>>

-----------------------------------------------------------------------------
(* Bounds of the model *)

MaxFail == 0        \* the chrome.storage call of this ordinal, at most, may reject
MaxStore == 2       \* the popup adds prompts while fewer than this many are listed
MaxSteps == 6       \* the popup is followed over this many handler runs
MaxPermKeys == 3    \* a store of at most this many keys is enumerated in every order
MaxClock == 18      \* the clock is followed up to this instant
MaxMsgs == 4        \* the worker receives at most this many messages
MaxCalls == 3       \* at most this many version checks follow each other immediately
MaxParts == 3       \* a semantic version has at most this many components
MaxRejected == 6    \* the ordinal of the chrome.storage call one savePrompt run sees rejected, at most
MaxRestoreFault == 3 \* the same, for the storage-manager calls of one restoreBackup run
MaxFaultSteps == 3   \* the popup is followed over this many handler runs when storage calls reject
MaxStarts == 4       \* this many popup handlers start when handlers overlap
MaxInFlight == 2     \* at most this many asynchronous calls are suspended at a time
MaxSaves == 2        \* this many savePrompt calls are started when calls overlap
SeedDays == 6       \* the days before the first instant followed, each with or without a backup

-----------------------------------------------------------------------------
(* Program constants *)

PROMPT_KEY_PREFIX == "prompt_"
CHUNK_KEY_SEPARATOR == "_chunk_"
MAX_CHUNK_LENGTH == 3
QUOTA_BYTES_PER_ITEM == 16
MAX_BACKUPS == 7

NoId == <<>>                       \* null / undefined id
NotAString == <<"<not-a-string>">> \* a value whose typeof is not 'string'
NaN == -1                          \* parseInt found no digits

-----------------------------------------------------------------------------
(* String primitives on token sequences *)

Min(a, b) == IF a < b THEN a ELSE b

StartsWith(s, p) == Len(p) <= Len(s) /\ SubSeq(s, 1, Len(p)) = p

Includes(s, tok) == \E i \in 1..Len(s) : s[i] = tok

\* s.substring(from, to) with 0-based, end-exclusive indices
Substring(s, from, to) == SubSeq(s, Min(from, Len(s)) + 1, Min(to, Len(s)))

IndexOf(s, tok) ==
    IF Includes(s, tok) THEN CHOOSE i \in 1..Len(s) : s[i] = tok /\ \A j \in 1..(i-1) : s[j] # tok
    ELSE 0

\* key.split(sep): the first two pieces, as the destructuring takes them
SplitFirst(key, sep) ==
    LET i == IndexOf(key, sep) IN IF i = 0 THEN key ELSE SubSeq(key, 1, i - 1)

SplitSecond(key, sep) ==
    LET i == IndexOf(key, sep)
        rest == SubSeq(key, i + 1, Len(key))
        j == IndexOf(rest, sep)
    IN IF j = 0 THEN rest ELSE SubSeq(rest, 1, j - 1)

\* parseInt(s, 10): the leading integer of the string, NaN when there is none
ParseInt(s) ==
    IF s # <<>> /\ \E n \in 0..9 : ToString(n) = s[1]
    THEN CHOOSE n \in 0..9 : ToString(n) = s[1]
    ELSE NaN

IsSpace(tok) == tok = " "

RECURSIVE TrimStart(_)
TrimStart(s) == IF s # <<>> /\ IsSpace(s[1]) THEN TrimStart(Tail(s)) ELSE s

RECURSIVE TrimEnd(_)
TrimEnd(s) == IF s # <<>> /\ IsSpace(s[Len(s)]) THEN TrimEnd(SubSeq(s, 1, Len(s) - 1)) ELSE s

\* a trim that leaves the string as it is
TrimNothing(s) == s

Trim(s) == TrimEnd(TrimStart(s))

\* TextEncoder().encode(c).length of one character
CharBytes(c) == IF c \in {"W", "X", "Y"} THEN 4 ELSE 1

RECURSIVE ByteLength(_)
ByteLength(s) == IF s = <<>> THEN 0 ELSE CharBytes(s[1]) + ByteLength(Tail(s))

\* collation weight of a title token: space, then the suffix tokens, then
\* the letters without regard to case ("apple" < "Mango" < "Zebra")
CollationWeight(tok) ==
    CASE tok = " " -> 0
      [] tok = " (2)" -> 1
      [] tok = " (3)" -> 2
      [] tok = "a" -> 10
      [] tok = "M" -> 20
      [] tok = "<undefined>" -> 25
      [] tok = "Z" -> 30
      [] OTHER -> 40

RECURSIVE LocaleCompare(_, _)
LocaleCompare(a, b) ==
    IF a = <<>> /\ b = <<>> THEN 0
    ELSE IF a = <<>> THEN -1
    ELSE IF b = <<>> THEN 1
    ELSE IF CollationWeight(a[1]) < CollationWeight(b[1]) THEN -1
    ELSE IF CollationWeight(a[1]) > CollationWeight(b[1]) THEN 1
    ELSE LocaleCompare(Tail(a), Tail(b))

Range(f) == {f[x] : x \in DOMAIN f}

\* the sequences that list every element of S exactly once
Orderings(S) ==
    {f \in [1..Cardinality(S) -> S] : \A i, j \in 1..Cardinality(S) : i # j => f[i] # f[j]}

-----------------------------------------------------------------------------
(* JavaScript values *)

Undefined == <<"<undefined>">>     \* the value of a property an object lacks

IsStringValue(v) == "str" \in DOMAIN v           \* typeof v === 'string'
IsObject(v) == ~IsStringValue(v)                 \* typeof v === 'object'
HasOwnProperty(v, f) == f \in DOMAIN v
TitleOf(m) == IF HasOwnProperty(m, "title") THEN m.title ELSE Undefined
TextOf(m) == IF HasOwnProperty(m, "text") THEN m.text ELSE Undefined
IdOf(m) == IF HasOwnProperty(m, "id") THEN m.id ELSE NoId

BaseKey(id) == <<PROMPT_KEY_PREFIX>> \o id
ChunkKey(baseKey, i) == baseKey \o <<CHUNK_KEY_SEPARATOR, ToString(i)>>

\* chrome.storage.sync.remove(keys) and .set({key: value})
StorageRemove(items, keys) == [k \in (DOMAIN items) \ keys |-> items[k]]
StorageSet(items, key, value) == [k \in (DOMAIN items) \cup {key} |-> IF k = key THEN value ELSE items[k]]

EmptyStore == [k \in {} |-> [str |-> <<>>]]

-----------------------------------------------------------------------------
(* storageManager.js: getAllPrompts *)

MapHas(m, k) == \E i \in 1..Len(m) : m[i].baseKey = k
MapPos(m, k) == CHOOSE i \in 1..Len(m) : m[i].baseKey = k
NoChunks == [i \in {} |-> [str |-> <<>>]]

\* promptEntry.chunks[chunkIndex] = allItems[key], creating the entry if absent
MapAddChunk(m, k, idx, value) ==
    LET m1 == IF MapHas(m, k) THEN m
              ELSE Append(m, [baseKey |-> k, metadata |-> <<>>, chunks |-> NoChunks])
        i == MapPos(m1, k)
        c == m1[i].chunks
    IN [m1 EXCEPT ![i].chunks = [j \in (DOMAIN c) \cup {idx} |-> IF j = idx THEN value ELSE c[j]]]

\* promptsMap.set(key, {metadata, chunks: []}) or .get(key).metadata = promptData
MapSetMetadata(m, k, promptData) ==
    IF MapHas(m, k) THEN [m EXCEPT ![MapPos(m, k)].metadata = <<promptData>>]
    ELSE Append(m, [baseKey |-> k, metadata |-> <<promptData>>, chunks |-> NoChunks])

\* one iteration of the first pass (the body of `for (const key in allItems)`)
FirstPassStep(m, allItems, key) ==
    IF ~StartsWith(key, <<PROMPT_KEY_PREFIX>>) THEN m
    ELSE IF Includes(key, CHUNK_KEY_SEPARATOR) THEN
        LET baseKey == SplitFirst(key, CHUNK_KEY_SEPARATOR)
            chunkIndex == ParseInt(SplitSecond(key, CHUNK_KEY_SEPARATOR))
        IN IF chunkIndex # NaN THEN MapAddChunk(m, baseKey, chunkIndex, allItems[key]) ELSE m
    ELSE
        LET promptData == allItems[key]
        IN IF IsObject(promptData) /\ IdOf(promptData) # NoId
           THEN MapSetMetadata(m, key, promptData)
           ELSE m

RECURSIVE FirstPass(_, _, _)
FirstPass(m, allItems, order) ==
    IF order = <<>> THEN m
    ELSE FirstPass(FirstPassStep(m, allItems, Head(order)), allItems, Tail(order))

\* the loop over i < chunkCount: the text so far, or Undefined once a chunk
\* is missing or not a string
RECURSIVE Reconstruct(_, _, _, _)
Reconstruct(chunks, chunkCount, i, fullText) ==
    IF i >= chunkCount THEN fullText
    ELSE IF i \in DOMAIN chunks /\ IsStringValue(chunks[i])
         THEN Reconstruct(chunks, chunkCount, i + 1, fullText \o chunks[i].str)
         ELSE Undefined

\* the second pass on one map entry: the prompts it appends (none or one)
SecondPassStep(data) ==
    IF data.metadata = <<>> THEN <<>>
    ELSE LET metadata == data.metadata[1] IN
         IF HasOwnProperty(metadata, "chunkCount") /\ metadata.chunkCount > 0 THEN
             LET fullText == Reconstruct(data.chunks, metadata.chunkCount, 0, <<>>)
             IN IF fullText # Undefined
                THEN <<[id |-> metadata.id, title |-> TitleOf(metadata), text |-> fullText]>>
                ELSE <<>>
         ELSE IF HasOwnProperty(metadata, "text")
              THEN <<[id |-> metadata.id, title |-> TitleOf(metadata), text |-> metadata.text]>>
              ELSE <<>>

RECURSIVE SecondPass(_)
SecondPass(m) == IF m = <<>> THEN <<>> ELSE SecondPassStep(Head(m)) \o SecondPass(Tail(m))

\* Array.prototype.sort with comparator Cmp (a stable sort): element i goes
\* after the elements that compare smaller and the equal ones before it
SortedPosition(arr, i, Cmp(_, _)) ==
    1 + Cardinality({j \in 1..Len(arr) : \/ Cmp(arr[j], arr[i]) < 0
                                         \/ (Cmp(arr[j], arr[i]) = 0 /\ j < i)})

StableSort(arr, Cmp(_, _)) ==
    [k \in 1..Len(arr) |-> arr[CHOOSE i \in 1..Len(arr) : SortedPosition(arr, i, Cmp) = k]]

\* mutant: the array is returned in the order the entries were found
SortByTitleOmitted(arr) == arr

\* finalPromptsArray.sort((a, b) => a.title.localeCompare(b.title))
CompareTitles(a, b) == LocaleCompare(a.title, b.title)
SortByTitle(arr) == StableSort(arr, CompareTitles)

\* a.title.localeCompare raises a TypeError when a.title is undefined; which
\* elements the engine passes as `a` is its own choice, except that an array
\* of fewer than two elements is never compared
SortMayThrow(arr) == Len(arr) >= 2 /\ \E i \in 1..Len(arr) : arr[i].title = Undefined
SortMayReturn(arr) == Cardinality({i \in 1..Len(arr) : arr[i].title = Undefined}) <= 1

\* the keys grouped by the map entry they belong to; the keys of a group in
\* a fixed order
RECURSIVE SeqOfSet(_)
SeqOfSet(S) ==
    IF S = {} THEN <<>>
    ELSE LET x == CHOOSE y \in S : \A z \in S : Len(y) <= Len(z)
         IN <<x>> \o SeqOfSet(S \ {x})

GroupOf(key) == SplitFirst(key, CHUNK_KEY_SEPARATOR)

RECURSIVE GroupedOrder(_, _)
GroupedOrder(keys, groups) ==
    IF groups = <<>> THEN <<>>
    ELSE SeqOfSet({k \in keys : GroupOf(k) = Head(groups)}) \o GroupedOrder(keys, Tail(groups))

\* The orders in which `for (const key in allItems)` may enumerate the keys.
\* The result depends on the order through the first occurrence of each base
\* key (the Map's insertion order) and, for two chunk keys that parse to the
\* same index, through which comes last; a small store is enumerated in
\* every order, a larger one in every order of its groups.
KeyOrders(allItems) ==
    IF Cardinality(DOMAIN allItems) <= MaxPermKeys THEN Orderings(DOMAIN allItems)
    ELSE {GroupedOrder(DOMAIN allItems, g) : g \in Orderings({GroupOf(k) : k \in DOMAIN allItems})}

\* every value getAllPrompts() may return for the given store content
GetAllPrompts(allItems) ==
    LET arrays == {SecondPass(FirstPass(<<>>, allItems, order)) : order \in KeyOrders(allItems)}
    IN {SortByTitle(arr) : arr \in {a \in arrays : SortMayReturn(a)}}
       \cup (IF \E arr \in arrays : SortMayThrow(arr) THEN {<<>>} ELSE {})

-----------------------------------------------------------------------------
(* storageManager.js: savePrompt *)

ValidPromptObject(p) ==
    /\ IdOf(p) # NoId
    /\ TitleOf(p) \notin {<<>>, Undefined}
    /\ TextOf(p) \notin {Undefined, NotAString}

\* new TextEncoder().encode(JSON.stringify(obj)).length, scaled: the braces,
\* quotes and property names count 2
JSON_OVERHEAD == 2
ItemByteLength(p) == JSON_OVERHEAD + Len(p.id) + ByteLength(p.title) + ByteLength(p.text)
MetadataByteLength(m) == JSON_OVERHEAD + Len(m.id) + ByteLength(m.title) + 1

\* what a run leaves: the store, the error it throws, and the chrome.storage
\* calls it has awaited, in order
Outcome(items, error, failedChunk) ==
    [items |-> items, error |-> error, failedChunk |-> failedChunk, calls |-> <<>>]

\* one awaited chrome.storage.sync call
StorageCall(method, keys, rejected) == [method |-> method, keys |-> keys, rejected |-> rejected]

\* the outcome of what follows the calls of `earlier`
WithCalls(earlier, outcome) == [outcome EXCEPT !.calls = earlier \o @]

\* mutant: each chunk runs one character into the next
RECURSIVE SplitChunksOverlapping(_, _)
SplitChunksOverlapping(text, i) ==
    IF i * MAX_CHUNK_LENGTH < Len(text)
    THEN <<Substring(text, i * MAX_CHUNK_LENGTH, (i + 1) * MAX_CHUNK_LENGTH + 1)>>
             \o SplitChunksOverlapping(text, i + 1)
    ELSE <<>>

\* for (let i = 0; i * MAX_CHUNK_LENGTH < text.length; i++) chunks.push(text.substring(...))
RECURSIVE SplitChunks(_, _)
SplitChunks(text, i) ==
    IF i * MAX_CHUNK_LENGTH < Len(text)
    THEN <<Substring(text, i * MAX_CHUNK_LENGTH, (i + 1) * MAX_CHUNK_LENGTH)>> \o SplitChunks(text, i + 1)
    ELSE <<>>

\* the single-item branch; `fail` = 1 when chrome.storage.sync.set rejects
SaveSingle(items, p, baseKey, fail) ==
    LET itemToSave == [id |-> p.id, title |-> p.title, text |-> p.text]
    IN IF ItemByteLength(itemToSave) >= QUOTA_BYTES_PER_ITEM - Len(baseKey)
       THEN Outcome(items, "TooLarge", -1)
       ELSE IF fail = 1
       THEN WithCalls(<<StorageCall("set", {baseKey}, TRUE)>>, Outcome(items, "StorageError", -1))
       ELSE WithCalls(<<StorageCall("set", {baseKey}, FALSE)>>,
                      Outcome(StorageSet(items, baseKey, itemToSave), "none", -1))

\* mutant: the loop stops before the last chunk
RECURSIVE SaveChunksButLast(_, _, _, _, _)
SaveChunksButLast(items, chunks, baseKey, i, fail) ==
    IF i >= Len(chunks) - 1 THEN Outcome(items, "none", -1)
    ELSE SaveChunksButLast(StorageSet(items, ChunkKey(baseKey, i), [str |-> chunks[i + 1]]),
                           chunks, baseKey, i + 1, fail - 1)

\* the loop that writes chunk i, i+1, ...; `fail` = 1 when the next set rejects
RECURSIVE SaveChunks(_, _, _, _, _)
SaveChunks(items, chunks, baseKey, i, fail) ==
    IF i >= Len(chunks) THEN Outcome(items, "none", -1)
    ELSE LET chunkKey == ChunkKey(baseKey, i)
             chunkData == chunks[i + 1]
         IN IF ByteLength(chunkData) >= QUOTA_BYTES_PER_ITEM - Len(chunkKey)
            THEN Outcome(items, "TooLarge", i)
            ELSE IF fail = 1
            THEN WithCalls(<<StorageCall("set", {chunkKey}, TRUE)>>, Outcome(items, "InconsistentStorage", i))
            ELSE WithCalls(<<StorageCall("set", {chunkKey}, FALSE)>>,
                           SaveChunks(StorageSet(items, chunkKey, [str |-> chunkData]),
                                      chunks, baseKey, i + 1, fail - 1))

\* mutant: the chunks first, then the metadata item
SaveChunkedMetadataLast(items, p, baseKey, fail) ==
    LET chunks == SplitChunks(p.text, 0)
        metadata == [id |-> p.id, title |-> p.title, chunkCount |-> Len(chunks)]
        written == SaveChunks(items, chunks, baseKey, 0, fail)
    IN IF written.error # "none" THEN written
       ELSE [written EXCEPT !.items = StorageSet(@, baseKey, metadata),
                            !.calls = @ \o <<StorageCall("set", {baseKey}, FALSE)>>]

\* the chunked branch: the metadata item first, then the chunks
SaveChunked(items, p, baseKey, fail) ==
    LET chunks == SplitChunks(p.text, 0)
        metadata == [id |-> p.id, title |-> p.title, chunkCount |-> Len(chunks)]
    IN IF MetadataByteLength(metadata) >= QUOTA_BYTES_PER_ITEM - Len(baseKey)
       THEN Outcome(items, "TooLarge", -1)
       ELSE IF fail = 1
       THEN WithCalls(<<StorageCall("set", {baseKey}, TRUE)>>, Outcome(items, "StorageError", -1))
       ELSE WithCalls(<<StorageCall("set", {baseKey}, FALSE)>>,
                      SaveChunks(StorageSet(items, baseKey, metadata), chunks, baseKey, 0, fail - 1))

\* mutant: the cleanup removes the base entry only
SaveKeysToRemoveBaseOnly(items, baseKey) == {k \in DOMAIN items : k = baseKey}

\* the keys the cleanup phase removes: key.startsWith(baseKey)
SaveKeysToRemove(items, baseKey) == {k \in DOMAIN items : StartsWith(k, baseKey)}

\* mutant: a rejected chunk write takes back the entries written so far
savePromptAttemptRollsBack(items, p, fail) ==
    IF ~ValidPromptObject(p) THEN Outcome(items, "InvalidInput", -1)
    ELSE LET baseKey == BaseKey(p.id)
             keysToRemove == SaveKeysToRemove(items, baseKey)
             calls == IF keysToRemove = {} THEN 1 ELSE 2
             get == StorageCall("get", {}, fail = 1)
             remove == StorageCall("remove", keysToRemove, fail = 2)
             left == IF fail \in 1..calls THEN Outcome(items, "CleanupError", -1)
                     ELSE LET cleaned == StorageRemove(items, keysToRemove)
                          IN WithCalls(IF keysToRemove = {} THEN <<get>> ELSE <<get, remove>>,
                                       IF Len(p.text) <= MAX_CHUNK_LENGTH
                                       THEN SaveSingle(cleaned, p, baseKey, fail - calls)
                                       ELSE SaveChunked(cleaned, p, baseKey, fail - calls))
         IN IF left.error = "InconsistentStorage"
            THEN [left EXCEPT !.items = StorageRemove(@, SaveKeysToRemove(@, baseKey))]
            ELSE left

\* the validation and the two try blocks of savePrompt on store content
\* `items`; `fail` is the ordinal of the chrome.storage call of this run
\* that rejects (0: none does)
savePromptAttempt(items, p, fail) ==
    IF ~ValidPromptObject(p) THEN Outcome(items, "InvalidInput", -1)
    ELSE LET baseKey == BaseKey(p.id)
             keysToRemove == SaveKeysToRemove(items, baseKey)
             calls == IF keysToRemove = {} THEN 1 ELSE 2
             get == StorageCall("get", {}, fail = 1)
             remove == StorageCall("remove", keysToRemove, fail = 2)
         IN IF fail = 1 THEN WithCalls(<<get>>, Outcome(items, "CleanupError", -1))
            ELSE IF fail \in 1..calls THEN WithCalls(<<get, remove>>, Outcome(items, "CleanupError", -1))
            ELSE LET cleaned == StorageRemove(items, keysToRemove)
                 IN WithCalls(IF keysToRemove = {} THEN <<get>> ELSE <<get, remove>>,
                              IF Len(p.text) <= MAX_CHUNK_LENGTH
                              THEN SaveSingle(cleaned, p, baseKey, fail - calls)
                              ELSE SaveChunked(cleaned, p, baseKey, fail - calls))

\* a rejection of chrome.storage.sync.set whose message names a quota
QuotaRejection(fail) == fail < 0
RejectedCall(fail) == IF fail < 0 THEN -fail ELSE fail

\* mutant: a text of exactly MAX_CHUNK_LENGTH characters is chunked
savePromptStrictThreshold(items, p, fail) ==
    IF ~ValidPromptObject(p) THEN Outcome(items, "InvalidInput", -1)
    ELSE LET baseKey == BaseKey(p.id)
             keysToRemove == {k \in DOMAIN items : StartsWith(k, baseKey)}
             calls == IF keysToRemove = {} THEN 1 ELSE 2
         IN IF fail \in 1..calls THEN Outcome(items, "CleanupError", -1)
            ELSE LET cleaned == StorageRemove(items, keysToRemove)
                 IN IF Len(p.text) < MAX_CHUNK_LENGTH
                    THEN SaveSingle(cleaned, p, baseKey, fail - calls)
                    ELSE SaveChunked(cleaned, p, baseKey, fail - calls)

\* savePrompt(promptObject) on store content `items`.  The chrome.storage
\* call of ordinal RejectedCall(fail) rejects (0: none does), with a quota
\* message when fail is negative; the catch of the save phase rethrows an
\* error whose message names a quota as a quota error
savePrompt(items, p, fail) ==
    LET thrown == savePromptAttempt(items, p, RejectedCall(fail))
    IN IF QuotaRejection(fail) /\ thrown.error \in {"StorageError", "InconsistentStorage"}
       THEN [thrown EXCEPT !.error = "QuotaExceeded"]
       ELSE thrown

-----------------------------------------------------------------------------
(* storageManager.js: deletePrompt *)

\* mutant: the chunk entries are not looked for
DeleteKeysToRemoveBaseOnly(items, baseKey) == {k \in DOMAIN items : k = baseKey}

\* key === baseKey || key.startsWith(baseKey + CHUNK_KEY_SEPARATOR)
DeleteKeysToRemove(items, baseKey) ==
    {k \in DOMAIN items : k = baseKey \/ StartsWith(k, baseKey \o <<CHUNK_KEY_SEPARATOR>>)}

\* mutant: the id is not validated
deletePromptUnvalidated(items, promptId, fail) ==
    LET baseKey == BaseKey(promptId)
        keysToRemove == DeleteKeysToRemove(items, baseKey)
        get == StorageCall("get", {}, fail = 1)
        remove == StorageCall("remove", keysToRemove, fail = 2)
    IN IF fail = 1 \/ (fail = 2 /\ keysToRemove # {})
       THEN WithCalls(<<get>>, Outcome(items, "DeleteError", -1))
       ELSE WithCalls(IF keysToRemove = {} THEN <<get>> ELSE <<get, remove>>,
                      Outcome(StorageRemove(items, keysToRemove), "none", -1))

deletePrompt(items, promptId, fail) ==
    IF promptId \in {NoId, NotAString, Undefined} \/ Trim(promptId) = <<>>
    THEN Outcome(items, "InvalidInput", -1)
    ELSE LET baseKey == BaseKey(promptId)
             keysToRemove == DeleteKeysToRemove(items, baseKey)
             calls == IF keysToRemove = {} THEN 1 ELSE 2
             get == StorageCall("get", {}, fail = 1)
             remove == StorageCall("remove", keysToRemove, fail = 2)
         IN IF fail = 1 THEN WithCalls(<<get>>, Outcome(items, "DeleteError", -1))
            ELSE IF fail \in 1..calls THEN WithCalls(<<get, remove>>, Outcome(items, "DeleteError", -1))
            ELSE WithCalls(IF keysToRemove = {} THEN <<get>> ELSE <<get, remove>>,
                           Outcome(StorageRemove(items, keysToRemove), "none", -1))

-----------------------------------------------------------------------------
(* modules/backup-manager.js *)

BACKUP_PREFIX == "prompt_backup_"

\* Instants are counted in half days.  The local calendar date of an instant:
\* instants 1 and 2 fall on day 1, instants 3 and 4 on day 2, and so on
TicksPerDay == 2
DayOf(now) == ToString((now + 1) \div TicksPerDay)
todayKey(now) == <<BACKUP_PREFIX, DayOf(now)>>

\* Date.now() as a number, for an instant given as Date.now().toString()
TimeValue(now) == ParseInt(<<now>>)

readIndex(loc) == loc.index

simplifyPrompts(prompts) ==
    [i \in 1..Len(prompts) |-> [id |-> prompts[i].id, title |-> prompts[i].title, text |-> prompts[i].text]]

NewestFirst(a, b) == b.timestamp - a.timestamp
OldestFirst(a, b) == a.timestamp - b.timestamp

pruneOldBackupsKeepsBodies(loc, index) ==
    LET sorted == StableSort(index, NewestFirst) IN
    IF Len(sorted) <= MAX_BACKUPS THEN [index |-> index, bodies |-> loc.bodies]
    ELSE [index |-> StableSort(SubSeq(sorted, 1, MAX_BACKUPS), OldestFirst), bodies |-> loc.bodies]

\* pruneOldBackups(index): the index to write and the local storage after the
\* removal of the pruned snapshot bodies
pruneOldBackups(loc, index) ==
    LET sorted == StableSort(index, NewestFirst) IN
    IF Len(sorted) <= MAX_BACKUPS THEN [index |-> index, bodies |-> loc.bodies]
    ELSE LET keep == SubSeq(sorted, 1, MAX_BACKUPS)
             remove == SubSeq(sorted, MAX_BACKUPS + 1, Len(sorted))
             keysToRemove == {remove[i].key : i \in 1..Len(remove)}
         IN [index |-> StableSort(keep, OldestFirst),
             bodies |-> [k \in (DOMAIN loc.bodies) \ keysToRemove |-> loc.bodies[k]]]

\* listBackups(): the index, newest first
listBackups(loc) == StableSort(readIndex(loc), NewestFirst)

backupTodayAlwaysAppends(loc, prompts, now) ==
    LET key == todayKey(now)
        snapshot == simplifyPrompts(prompts)
        written == [k \in (DOMAIN loc.bodies) \cup {key} |-> IF k = key THEN snapshot ELSE loc.bodies[k]]
    IN pruneOldBackups([index |-> readIndex(loc), bodies |-> written],
                       Append(readIndex(loc), [key |-> key, timestamp |-> now, count |-> Len(snapshot)]))

\* backupToday(prompts): the local storage afterwards
backupToday(loc, prompts, now) ==
    LET key == todayKey(now)
        snapshot == simplifyPrompts(prompts)
        timestamp == now
        written == [k \in (DOMAIN loc.bodies) \cup {key} |-> IF k = key THEN snapshot ELSE loc.bodies[k]]
        index == readIndex(loc)
        existing == {i \in 1..Len(index) : index[i].key = key}
        updated == IF existing # {}
                   THEN LET e == CHOOSE i \in existing : \A j \in existing : i <= j
                        IN [index EXCEPT ![e] = [key |-> key, timestamp |-> timestamp, count |-> Len(snapshot)]]
                   ELSE Append(index, [key |-> key, timestamp |-> timestamp, count |-> Len(snapshot)])
    IN pruneOldBackups([index |-> index, bodies |-> written], updated)

\* backupDailyIfMissing(prompts)
backupDailyIfMissing(loc, prompts, now) ==
    IF \E i \in 1..Len(readIndex(loc)) : readIndex(loc)[i].key = todayKey(now)
    THEN loc
    ELSE backupToday(loc, prompts, now)

\* the fault of the n-th storage-manager call of a handler (0: none)
FailAt(fails, n) == IF n \in DOMAIN fails THEN fails[n] ELSE 0

\* one awaited storage-manager call of restoreBackup and whether it resolved
Attempt(call, p, outcome) == [call |-> call, id |-> p.id, resolved |-> outcome.error = "none"]

\* what follows the attempt `earlier`
AfterAttempt(earlier, rest) == [rest EXCEPT !.attempts = <<earlier>> \o @]

\* mutant: the first deletion that fails ends the loop
RECURSIVE RestoreDeleteLoopStopsAtFailure(_, _, _, _)
RestoreDeleteLoopStopsAtFailure(items, current, i, fails) ==
    IF i > Len(current) THEN [items |-> items, attempts |-> <<>>]
    ELSE LET r == deletePrompt(items, current[i].id, FailAt(fails, i))
         IN AfterAttempt(Attempt("deletePrompt", current[i], r),
                         IF r.error # "none" THEN [items |-> r.items, attempts |-> <<>>]
                         ELSE RestoreDeleteLoopStopsAtFailure(r.items, current, i + 1, fails))

\* for (const p of current) { try { await deletePrompt(p.id) } catch {} }
RECURSIVE RestoreDeleteLoop(_, _, _, _)
RestoreDeleteLoop(items, current, i, fails) ==
    IF i > Len(current) THEN [items |-> items, attempts |-> <<>>]
    ELSE LET r == deletePrompt(items, current[i].id, FailAt(fails, i))
         IN AfterAttempt(Attempt("deletePrompt", current[i], r),
                         RestoreDeleteLoop(r.items, current, i + 1, fails))

\* mutant: the first save that fails ends the loop
RECURSIVE RestoreSaveLoopStopsAtFailure(_, _, _, _, _, _)
RestoreSaveLoopStopsAtFailure(items, snapshot, i, saved, failed, fails) ==
    IF i > Len(snapshot) THEN [items |-> items, saved |-> saved, failed |-> failed, attempts |-> <<>>]
    ELSE LET r == savePrompt(items, snapshot[i], FailAt(fails, i))
         IN AfterAttempt(Attempt("savePrompt", snapshot[i], r),
                         IF r.error = "none"
                         THEN RestoreSaveLoopStopsAtFailure(r.items, snapshot, i + 1, saved + 1, failed, fails)
                         ELSE [items |-> r.items, saved |-> saved, failed |-> failed + 1, attempts |-> <<>>])

\* for (const p of snapshot) { try { await savePrompt(p); saved++ } catch { failed++ } }
RECURSIVE RestoreSaveLoop(_, _, _, _, _, _)
RestoreSaveLoop(items, snapshot, i, saved, failed, fails) ==
    IF i > Len(snapshot) THEN [items |-> items, saved |-> saved, failed |-> failed, attempts |-> <<>>]
    ELSE LET r == savePrompt(items, snapshot[i], FailAt(fails, i))
         IN AfterAttempt(Attempt("savePrompt", snapshot[i], r),
                         IF r.error = "none"
                         THEN RestoreSaveLoop(r.items, snapshot, i + 1, saved + 1, failed, fails)
                         ELSE RestoreSaveLoop(r.items, snapshot, i + 1, saved, failed + 1, fails))

\* mutant: the current prompts are deleted before the confirmation is asked
restoreBackupDeletesFirst(items, loc, key, current, proceed, deleteFails, saveFails) ==
    IF key \notin DOMAIN loc.bodies
    THEN [items |-> items, error |-> "NotFound", cancelled |-> FALSE,
          saved |-> 0, failed |-> 0, total |-> 0, attempts |-> <<>>]
    ELSE LET snapshot == loc.bodies[key]
             deleted == RestoreDeleteLoop(items, current, 1, deleteFails)
         IN IF ~proceed
            THEN [items |-> deleted.items, error |-> "none", cancelled |-> TRUE,
                  saved |-> 0, failed |-> 0, total |-> 0, attempts |-> deleted.attempts]
            ELSE LET r == RestoreSaveLoop(deleted.items, snapshot, 1, 0, 0, saveFails)
                 IN [items |-> r.items, error |-> "none", cancelled |-> FALSE,
                     saved |-> r.saved, failed |-> r.failed, total |-> Len(snapshot),
                     attempts |-> deleted.attempts \o r.attempts]

\* restoreBackup(key): `current` is what getAllPrompts() returned, `proceed`
\* the answer to confirm(); deleteFails and saveFails give the faults of the
\* deletePrompt and savePrompt calls
restoreBackup(items, loc, key, current, proceed, deleteFails, saveFails) ==
    IF key \notin DOMAIN loc.bodies
    THEN [items |-> items, error |-> "NotFound", cancelled |-> FALSE,
          saved |-> 0, failed |-> 0, total |-> 0, attempts |-> <<>>]
    ELSE LET snapshot == loc.bodies[key] IN
         IF ~proceed
         THEN [items |-> items, error |-> "none", cancelled |-> TRUE,
               saved |-> 0, failed |-> 0, total |-> 0, attempts |-> <<>>]
         ELSE LET deleted == RestoreDeleteLoop(items, current, 1, deleteFails)
                  r == RestoreSaveLoop(deleted.items, snapshot, 1, 0, 0, saveFails)
              IN [items |-> r.items, error |-> "none", cancelled |-> FALSE,
                  saved |-> r.saved, failed |-> r.failed, total |-> Len(snapshot),
                  attempts |-> deleted.attempts \o r.attempts]

-----------------------------------------------------------------------------
(* modules/prompt-operations.js *)

\* ` (${titleSuffix})`
SuffixToken(n) ==
    CASE n = 2 -> " (2)"
      [] n = 3 -> " (3)"
      [] n = 4 -> " (4)"
      [] OTHER -> " (5)"

\* while (existingTitles.includes(newTitle)) newTitle = `${title} (${titleSuffix++})`
RECURSIVE DisambiguateTitle(_, _, _, _)
DisambiguateTitle(title, newTitle, titleSuffix, existingTitles) ==
    IF newTitle \in existingTitles
    THEN DisambiguateTitle(title, title \o <<SuffixToken(titleSuffix)>>, titleSuffix + 1, existingTitles)
    ELSE newTitle

\* the valid entries of the parsed file, their titles trimmed
PromptsToImport(importedData) ==
    LET valid == SelectSeq(importedData,
                     LAMBDA item : TitleOf(item) \notin {Undefined, NotAString}
                                   /\ TextOf(item) \notin {Undefined, NotAString})
    IN [i \in 1..Len(valid) |-> [title |-> Trim(valid[i].title), text |-> valid[i].text]]

RECURSIVE ImportLoopForgetsAccepted(_, _, _, _, _, _, _)
ImportLoopForgetsAccepted(items, promptsToImport, i, existingTitles, newIds, importedCount, fails) ==
    IF i > Len(promptsToImport) THEN [items |-> items, importedCount |-> importedCount]
    ELSE LET importedPrompt == promptsToImport[i]
             newTitle == DisambiguateTitle(importedPrompt.title, importedPrompt.title, 2, existingTitles)
             r == savePrompt(items, [id |-> newIds[i], title |-> newTitle, text |-> importedPrompt.text],
                             FailAt(fails, i))
         IN ImportLoopForgetsAccepted(r.items, promptsToImport, i + 1, existingTitles, newIds,
                                      importedCount + (IF r.error = "none" THEN 1 ELSE 0), fails)

\* the import loop from entry i on; newIds[i] is the id generated for entry i
RECURSIVE ImportLoop(_, _, _, _, _, _, _)
ImportLoop(items, promptsToImport, i, existingTitles, newIds, importedCount, fails) ==
    IF i > Len(promptsToImport) THEN [items |-> items, importedCount |-> importedCount]
    ELSE LET importedPrompt == promptsToImport[i]
             newTitle == DisambiguateTitle(importedPrompt.title, importedPrompt.title, 2, existingTitles)
             promptToSave == [id |-> newIds[i], title |-> newTitle, text |-> importedPrompt.text]
             r == savePrompt(items, promptToSave, FailAt(fails, i))
         IN IF r.error = "none"
            THEN ImportLoop(r.items, promptsToImport, i + 1, existingTitles \cup {newTitle},
                            newIds, importedCount + 1, fails)
            ELSE ImportLoop(r.items, promptsToImport, i + 1, existingTitles, newIds, importedCount, fails)

-----------------------------------------------------------------------------
(* background.js: the worker's message listener.  The slot is <<>> for null
   and <<image>> for a pending image; the stored timestamp, which no code
   reads, is left out. *)

NoResponseData == <<>>

\* a listener whose retrieve also takes the image out of the slot
OnMessageRetrieveTakes(slot, request) ==
    CASE request.action = "storeImageForCopy" ->
            [slot |-> <<[dataURI |-> request.dataURI, mimeType |-> request.mimeType,
                         associatedPromptTitle |-> request.associatedPromptTitle]>>,
             response |-> [success |-> TRUE, data |-> NoResponseData]]
      [] request.action = "retrieveImageForCopy" ->
            [slot |-> <<>>, response |-> [success |-> slot # <<>>, data |-> slot]]
      [] request.action = "clearStoredImage" ->
            [slot |-> <<>>, response |-> [success |-> TRUE, data |-> NoResponseData]]
      [] OTHER -> [slot |-> slot, response |-> [success |-> FALSE, data |-> NoResponseData]]

\* the listener on request: the slot afterwards and the response sent
OnMessage(slot, request) ==
    CASE request.action = "storeImageForCopy" ->
            [slot |-> <<[dataURI |-> request.dataURI, mimeType |-> request.mimeType,
                         associatedPromptTitle |-> request.associatedPromptTitle]>>,
             response |-> [success |-> TRUE, data |-> NoResponseData]]
      [] request.action = "retrieveImageForCopy" ->
            IF slot # <<>>
            THEN [slot |-> slot, response |-> [success |-> TRUE, data |-> slot]]
            ELSE [slot |-> slot, response |-> [success |-> FALSE, data |-> NoResponseData]]
      [] request.action = "clearStoredImage" ->
            [slot |-> <<>>, response |-> [success |-> TRUE, data |-> NoResponseData]]
      [] OTHER -> [slot |-> slot, response |-> [success |-> FALSE, data |-> NoResponseData]]

-----------------------------------------------------------------------------
(* modules/image-handler.js.  A data URI is the token sequence
   <<"data:", type..., ";base64", ",", data...>>; a MIME type is the pair of
   tokens <<"image/", "png">>. *)

\* parseDataURI(dataURI): <<>> for null, else <<[mimeType, base64Data]>>
parseDataURI(dataURI) ==
    IF dataURI = <<>> \/ dataURI[1] # "data:" THEN <<>>
    ELSE LET commaIndex == IndexOf(dataURI, ",") IN
         IF commaIndex = 0 THEN <<>>
         ELSE LET header == SubSeq(dataURI, 1, commaIndex - 1)
                  base64Data == SubSeq(dataURI, commaIndex + 1, Len(dataURI))
                  semicolon == IndexOf(header, ";base64")
                  mimeMatch == IF semicolon = 0 THEN <<>> ELSE SubSeq(header, 2, semicolon - 1)
              IN IF mimeMatch = <<>> THEN <<>>
                 ELSE <<[mimeType |-> mimeMatch, base64Data |-> base64Data]>>

\* base64ToBlob(base64, type): <<>> for null when atob rejects the data
base64ToBlob(base64, type) ==
    IF Includes(base64, "!") THEN <<>> ELSE <<[type |-> type, bytes |-> base64]>>

\* a clear whose message the worker never acts on
clearPendingImageFromBackgroundIgnored(slot, reachable) == slot

\* clearPendingImageFromBackground(): the slot afterwards; a send that fails
\* is caught and leaves the slot as it is
clearPendingImageFromBackground(slot, reachable) ==
    IF reachable THEN OnMessage(slot, [action |-> "clearStoredImage"]).slot ELSE slot

\* the image handed to the worker by the latest first-step copy, forgotten
\* once a clearStoredImage message has been delivered
ClearedAtCopy(staged, reachable) == IF reachable THEN <<>> ELSE staged

\* resetLocallyStagedImage(locallyStagedImage)
resetLocallyStagedImage == <<>>

\* processPastedImage(imageFile, ...): the src of the img element inserted,
\* the image staged and the value returned (<<>> for none and null)
processPastedImage(imageFile) ==
    IF ~imageFile.readable
    THEN [inserted |-> <<>>, staged |-> <<>>, returned |-> <<>>]
    ELSE LET dataURI == imageFile.dataURI IN
         IF dataURI = <<>> \/ dataURI[1] # "data:"
         THEN [inserted |-> <<>>, staged |-> <<>>, returned |-> <<>>]
         ELSE LET parsed == parseDataURI(dataURI)
                  blob == IF parsed = <<>> THEN <<>>
                          ELSE base64ToBlob(parsed[1].base64Data, parsed[1].mimeType)
              IN IF blob # <<>>
                 THEN [inserted |-> dataURI,
                       staged |-> <<[dataURI |-> dataURI, mimeType |-> parsed[1].mimeType, blob |-> blob[1]]>>,
                       returned |-> dataURI]
                 ELSE [inserted |-> dataURI, staged |-> <<>>, returned |-> <<>>]

\* a popup that never offers the pending image
updatePendingImageCopyButtonVisibilityNever(slot, reachable) == <<>>

\* updatePendingImageCopyButtonVisibility(): the button of the document
\* afterwards; the old one is removed first, a new one shown for a pending image
updatePendingImageCopyButtonVisibility(slot, reachable) ==
    IF ~reachable THEN <<>>
    ELSE LET response == OnMessage(slot, [action |-> "retrieveImageForCopy"]).response
         IN IF response.success /\ response.data # <<>>
            THEN <<[label |-> "Copy Image", data |-> response.data[1], disabled |-> FALSE]>>
            ELSE <<>>

-----------------------------------------------------------------------------
(* popup-main.js: the payload of handleCopyOutputClick *)

TextHtml == <<"text/", "html">>
TextPlain == <<"text/", "plain">>

\* a payload whose image block is appended whether or not an image is present
PlainTextOutputAlwaysImageBlock(systemPromptText, userTextContent, imageIsVisuallyPresent, canDoAdvancedImageCopy) ==
    <<"[[[system prompt begin]]]", "\n\n">> \o systemPromptText \o <<"\n\n", "[[[system prompt end]]]">>
    \o (IF userTextContent # <<>>
        THEN <<"\n\n\n", "[[[user input text begin]]]", "\n\n">> \o userTextContent
             \o <<"\n\n", "[[[user input text end]]]">>
        ELSE <<>>)
    \o <<"\n\n\n", "[[[user input]]]", "\n\n", "[Image was present. ",
         IF canDoAdvancedImageCopy THEN "User pasted an image, check artifacts"
         ELSE "Image not fully processed for separate copy.",
         "]", "\n\n", "[[[user input end]]]">>

PlainTextOutput(systemPromptText, userTextContent, imageIsVisuallyPresent, canDoAdvancedImageCopy) ==
    <<"[[[system prompt begin]]]", "\n\n">> \o systemPromptText \o <<"\n\n", "[[[system prompt end]]]">>
    \o (IF userTextContent # <<>>
        THEN <<"\n\n\n", "[[[user input text begin]]]", "\n\n">> \o userTextContent
             \o <<"\n\n", "[[[user input text end]]]">>
        ELSE <<>>)
    \o (IF imageIsVisuallyPresent
        THEN <<"\n\n\n", "[[[user input]]]", "\n\n", "[Image was present. ",
               IF canDoAdvancedImageCopy THEN "User pasted an image, check artifacts"
               ELSE "Image not fully processed for separate copy.",
               "]", "\n\n", "[[[user input end]]]">>
        ELSE <<>>)

\* the html representation: the escaped system prompt and the editor's innerHTML
HtmlOutput(systemPromptText, editor) ==
    <<"<div><p><strong>System Prompt:</strong></p><pre>">> \o systemPromptText
    \o <<"</pre><hr><p><strong>User Input:</strong></p><div>">> \o editor.text
    \o (IF editor.img # <<>> THEN <<"<img src=">> \o editor.img \o <<">">> ELSE <<>>)
    \o <<"</div></div>">>

\* new ClipboardItem({'text/html': ..., 'text/plain': ...})
CopyClipboardItem(htmlOutput, plainTextOutput) ==
    [t \in {TextHtml, TextPlain} |-> IF t = TextHtml THEN htmlOutput ELSE plainTextOutput]

\* an item that carries a text representation next to the image
ImageClipboardItemWithText(mimeType, blob) ==
    [t \in {mimeType, TextPlain} |-> IF t = mimeType THEN blob.bytes ELSE <<"[image]">>]

\* new ClipboardItem({ [parsed.mimeType]: blob })
ImageClipboardItem(mimeType, blob) == [t \in {mimeType} |-> blob.bytes]

-----------------------------------------------------------------------------
(* version-checker.js *)

checkIntervalHours == 24
HoursPerTick == 24 \div TicksPerDay

FetchResults == {"ok", "missing", "httpError", "networkError", "parseError"}

\* shouldCheck(): lastCheck is 0 when the key is unset
shouldCheck(lastCheck, now, interval) ==
    IF lastCheck = 0 THEN TRUE
    ELSE (now - lastCheck) * HoursPerTick >= interval

\* a check that never records its time
checkVersionNeverRecords(lastCheck, now, interval, fetchResult) ==
    IF ~shouldCheck(lastCheck, now, interval)
    THEN [fetched |-> FALSE, lastCheck |-> lastCheck]
    ELSE [fetched |-> TRUE, lastCheck |-> lastCheck]

\* checkVersion() with the given interval: whether the registry was fetched,
\* and the last check time afterwards.  A failed fetch, a body that does not
\* parse and a registry without an entry for the extension end the check
\* before updateLastCheckTime()
checkVersion(lastCheck, now, interval, fetchResult) ==
    IF ~shouldCheck(lastCheck, now, interval)
    THEN [fetched |-> FALSE, lastCheck |-> lastCheck]
    ELSE IF fetchResult # "ok"
    THEN [fetched |-> TRUE, lastCheck |-> lastCheck]
    ELSE [fetched |-> TRUE, lastCheck |-> now]

\* forceCheckVersion(): checkVersion() with the interval set to 0
forceCheckVersion(lastCheck, now, fetchResult) == checkVersion(lastCheck, now, 0, fetchResult)

-----------------------------------------------------------------------------
(* version-checker.js: the comparison of versions.  A version string is the
   sequence of its characters, digits and dots. *)

IsDigit(c) == \E n \in 0..9 : ToString(n) = c
DigitValue(c) == CHOOSE n \in 0..9 : ToString(n) = c

\* the UTF-16 code unit of a character of a version string
CharCodeAt(c) == IF c = "." THEN 46 ELSE 48 + DigitValue(c)

\* a > b on strings: by code units, a proper prefix being the smaller
RECURSIVE StringGreater(_, _)
StringGreater(a, b) ==
    IF a = <<>> THEN FALSE
    ELSE IF b = <<>> THEN TRUE
    ELSE IF a[1] = b[1] THEN StringGreater(Tail(a), Tail(b))
    ELSE CharCodeAt(a[1]) > CharCodeAt(b[1])

\* s.split(sep)
RECURSIVE Split(_, _)
Split(s, sep) ==
    LET i == IndexOf(s, sep) IN
    IF i = 0 THEN <<s>> ELSE <<SubSeq(s, 1, i - 1)>> \o Split(SubSeq(s, i + 1, Len(s)), sep)

RECURSIVE DecimalValue(_, _)
DecimalValue(digits, acc) ==
    IF digits = <<>> THEN acc ELSE DecimalValue(Tail(digits), 10 * acc + DigitValue(digits[1]))

\* Number(part): 0 for the empty string, NaN for anything but digits
Number(part) ==
    IF part = <<>> THEN 0
    ELSE IF \A i \in 1..Len(part) : IsDigit(part[i]) THEN DecimalValue(part, 0)
    ELSE NaN

\* a component that counts as 1 where the version has none
PartOrOne(parts, i) == IF i \in 1..Len(parts) /\ Number(parts[i]) # NaN THEN Number(parts[i]) ELSE 1

\* parts[i] || 0, i counted from 1
PartOrZero(parts, i) == IF i \in 1..Len(parts) /\ Number(parts[i]) # NaN THEN Number(parts[i]) ELSE 0

\* /^\d{2}\.\d{2}\.\d{2}\.\d{4}$/.test(version)
isTimestampVersion(version) ==
    /\ Len(version) = 13
    /\ \A i \in 1..13 : IF i \in {3, 6, 9} THEN version[i] = "." ELSE IsDigit(version[i])

\* the loop of isOutdated over the components, from component i on
RECURSIVE CompareParts(_, _, _)
CompareParts(currentParts, latestParts, i) ==
    IF i > Len(currentParts) /\ i > Len(latestParts) THEN FALSE
    ELSE IF PartOrZero(latestParts, i) > PartOrZero(currentParts, i) THEN TRUE
    ELSE IF PartOrZero(latestParts, i) < PartOrZero(currentParts, i) THEN FALSE
    ELSE CompareParts(currentParts, latestParts, i + 1)

\* a comparison that takes a version for outdated when the latest is the same
isOutdatedOrSame(current, latest) ==
    IF isTimestampVersion(current) \/ isTimestampVersion(latest)
    THEN ~StringGreater(current, latest)
    ELSE ~CompareParts(Split(latest, "."), Split(current, "."), 1)

\* isOutdated(current, latest)
isOutdated(current, latest) ==
    IF isTimestampVersion(current) \/ isTimestampVersion(latest)
    THEN current # latest /\ StringGreater(latest, current)
    ELSE CompareParts(Split(current, "."), Split(latest, "."), 1)

\* manifest.version, and what the registry may hold for the extension
ManifestVersion == <<"2">>
RegistryVersions == {<<"1">>, <<"3">>}

\* a check that caches what it was given whether or not the entry was found
storeLatestVersionAlways(cached, entryFound, latest) == latest

\* checkVersion() after the fetch: latestVersion_<name> in chrome.storage.local
\* afterwards; only a check that found the registry's entry writes it
storeLatestVersion(cached, entryFound, latest) == IF entryFound THEN latest ELSE cached

\* checkVersion() after the fetch: the badge text afterwards;
\* showUpdateNotification() sets it when the entry is later than the manifest
showUpdateNotification(badgeText, entryFound, current, latest) ==
    IF entryFound /\ isOutdated(current, latest) THEN <<"!">> ELSE badgeText

-----------------------------------------------------------------------------
(* uiManager.js: the views *)

viewIds == [LIST |-> "prompt-list-view", INPUT |-> "prompt-input-view", EDIT |-> "add-edit-view"]
VIEWS == viewIds

\* the elements of the document the model follows: the views and the list
DocumentIds == Range(viewIds) \cup {"prompt-list"}

\* the document as loaded: the LIST view is the one displayed
InitialDisplay ==
    [id \in DocumentIds |-> IF id = viewIds.LIST THEN "block"
                            ELSE IF id \in Range(viewIds) THEN "none" ELSE ""]

\* the view element is the one the popup shows
Displayed(viewId) == view[viewId] = "block"

\* showView(viewId): the display of the elements afterwards
showView(display, viewId) ==
    LET hidden == [id \in DOMAIN display |-> IF id \in Range(viewIds) THEN "none" ELSE display[id]]
    IN IF viewId \in DOMAIN display
       THEN [hidden EXCEPT ![viewId] = "block"]
       ELSE [hidden EXCEPT ![viewIds.LIST] = "block"]

-----------------------------------------------------------------------------
(* Inputs *)

Timestamps == {"1", "2"}            \* Date.now().toString()
RandomSuffixes == {"-x"}            \* '-' + Math.random().toString(36).substring(2, 9)
AddIds == {<<t>> : t \in Timestamps}
ImportIds == {<<t, r>> : t \in Timestamps, r \in RandomSuffixes}

\* texts of 1, MAX_CHUNK_LENGTH, MAX_CHUNK_LENGTH + 1 and 2 * MAX_CHUNK_LENGTH + 1
\* characters, and texts of multi-byte characters
ShortText == <<"a">>
FullText == <<"a", "b", "c">>
TwoChunkText == <<"a", "b", "c", "d">>
ThreeChunkText == <<"a", "b", "c", "d", "e", "f", "g">>
WideChunkText == <<"a", "b", "c", "W", "X", "Y">>

StoreIds == {<<"1">>, <<"1", "-x">>, <<"2">>}
StoreTitles == {<<"M">>, <<"a">>}
StoreTexts == {FullText, TwoChunkText, ThreeChunkText}

PromptObjects ==
    {[id |-> i, title |-> t, text |-> x] : i \in StoreIds, t \in StoreTitles, x \in StoreTexts}
    \cup {[id |-> i, title |-> <<"a">>, text |-> WideChunkText] : i \in StoreIds}

InvalidPromptObjects ==
    { [title |-> <<"a">>, text |-> ShortText],
      [id |-> <<"1">>, text |-> ShortText],
      [id |-> <<"1">>, title |-> <<>>, text |-> ShortText],
      [id |-> <<"1">>, title |-> <<"a">>, text |-> NotAString] }

-----------------------------------------------------------------------------
(* State *)

NoBodies == [k \in {} |-> <<>>]

NoneIndexed == [k \in {} |-> 0]
EmptyEditor == [text |-> <<>>, img |-> <<>>]

\* the popup's session state, the worker's slot, the clock and the version
\* checker's storage at the start
InitSession ==
    /\ clock = 1
    /\ indexed = NoneIndexed
    /\ exportedFile = <<>>
    /\ inFlight = <<>>
    /\ moreImages = <<>>
    /\ pendingImageForCopy = <<>>
    /\ workerReachable = TRUE
    /\ msgs = <<>>
    /\ stagedAtCopy = <<>>
    /\ selectedSystemPromptText = <<>>
    /\ selectedPromptTitle = <<>>
    /\ userInput = EmptyEditor
    /\ currentPastedImageBase64 = <<>>
    /\ locallyStagedImage = <<>>
    /\ pendingButton = <<>>
    /\ clipboard = <<>>
    /\ lastVersionCheck = 0
    /\ checkInterval = checkIntervalHours
    /\ latestVersion = <<>>
    /\ badge = <<>>
    /\ checks = <<>>

Init ==
    /\ store = EmptyStore
    /\ local = [index |-> <<>>, bodies |-> NoBodies]
    /\ currentPrompts = <<>>
    /\ currentEditingId = NoId
    /\ view = InitialDisplay
    /\ lastOp = [op |-> "init"]
    /\ faulted = FALSE
    /\ steps = 0
    /\ InitSession

popupVars == <<local, currentPrompts, currentEditingId, view, steps, sessionVars>>

\* one more popup handler runs
Step == steps < MaxSteps /\ steps' = steps + 1

\* the keys of the chunk entries of an id, and all the keys of an id
ChunkKeysOf(items, id) ==
    {k \in DOMAIN items : StartsWith(k, BaseKey(id) \o <<CHUNK_KEY_SEPARATOR>>)}
KeysOf(items, id) == {k \in DOMAIN items : k = BaseKey(id)} \cup ChunkKeysOf(items, id)

-----------------------------------------------------------------------------
(* The storage manager called directly *)

SavePromptCall(p, fail) ==
    LET r == savePrompt(store, p, fail) IN
    /\ store' = r.items
    /\ lastOp' = [op |-> "savePrompt", id |-> IdOf(p), error |-> r.error, failedChunk |-> r.failedChunk,
                  saved |-> IF r.error = "none" THEN <<p>> ELSE <<>>,
                  chunksBefore |-> Cardinality(ChunkKeysOf(store, IdOf(p))),
                  keysBefore |-> KeysOf(store, IdOf(p)), calls |-> r.calls,
                  quota |-> QuotaRejection(fail)]
    /\ faulted' = (faulted \/ r.error # "none")
    /\ UNCHANGED popupVars

DeletePromptCall(promptId, fail) ==
    LET r == deletePrompt(store, promptId, fail) IN
    /\ store' = r.items
    /\ lastOp' = [op |-> "deletePrompt", id |-> promptId, error |-> r.error,
                  chunksBefore |-> Cardinality(ChunkKeysOf(store, promptId)),
                  calls |-> r.calls]
    /\ faulted' = (faulted \/ r.error # "none")
    /\ UNCHANGED popupVars

GetAllPromptsCall ==
    /\ \E result \in GetAllPrompts(store) :
          lastOp' = [op |-> "getAllPrompts", result |-> result]
    /\ UNCHANGED <<store, faulted>>
    /\ UNCHANGED popupVars

Next ==
    \/ \E p \in PromptObjects \cup InvalidPromptObjects, fail \in 0..MaxFail : SavePromptCall(p, fail)
    \/ \E id \in StoreIds \cup {NoId, NotAString, <<" ">>}, fail \in 0..MaxFail : DeletePromptCall(id, fail)
    \/ GetAllPromptsCall

Spec == Init /\ [][Next]_vars

-----------------------------------------------------------------------------
(* The popup: popup-main.js and modules/prompt-operations.js *)

PopupTitleInputs == {<<"a">>, <<"M">>, <<" ">>}
PopupTextInputs == {ShortText, <<" ">>}
ImportItemA == [title |-> <<"a">>, text |-> ShortText]
ImportItemM == [title |-> <<"M", " ">>, text |-> TwoChunkText]
ImportFiles == {<<ImportItemA>>, <<ImportItemM>>, <<ImportItemA, ImportItemA>>, <<ImportItemA, ImportItemM>>}

ListedIds == {currentPrompts[i].id : i \in 1..Len(currentPrompts)}
StoredIds(items) == {items[k].id : k \in {b \in DOMAIN items : IsObject(items[b]) /\ HasOwnProperty(items[b], "id")}}

\* what the prompt handlers of the popup leave alone
backgroundVars == <<timeVars, exportedFile, inFlight, moreImages, workerReachable, msgs, clipboard, versionVars>>

\* handleUserInputOnInput(): the processed and the staged image afterwards
handleUserInputOnInput(editor, pasted, staged) ==
    IF editor.img = <<>> /\ pasted # <<>>
    THEN [pasted |-> <<>>, staged |-> resetLocallyStagedImage]
    ELSE [pasted |-> pasted, staged |-> staged]

\* initializePopup() of a newly opened popup: the list is loaded and the
\* pending-image button shown if the worker holds an image, today's backup
\* is taken if missing and the LIST view is shown
InitializePopup(now) ==
    /\ Step
    /\ \E loaded \in GetAllPrompts(store) :
          /\ currentPrompts' = loaded
          /\ local' = backupDailyIfMissing(local, loaded, TimeValue(now))
    /\ currentEditingId' = NoId
    /\ view' = showView(InitialDisplay, VIEWS.LIST)
    /\ selectedSystemPromptText' = <<>>
    /\ selectedPromptTitle' = <<>>
    /\ userInput' = EmptyEditor
    /\ currentPastedImageBase64' = <<>>
    /\ locallyStagedImage' = <<>>
    /\ pendingButton' = updatePendingImageCopyButtonVisibility(pendingImageForCopy, workerReachable)
    /\ lastOp' = [op |-> "initializePopup", reachable |-> workerReachable]
    /\ UNCHANGED <<store, faulted, pendingImageForCopy, stagedAtCopy, backgroundVars>>

\* handleSelectPrompt(promptId), from a listed prompt
HandleSelectPrompt(promptId) ==
    /\ Step
    /\ Displayed(VIEWS.LIST)
    /\ promptId \in ListedIds
    /\ LET selectedPrompt == currentPrompts[CHOOSE i \in 1..Len(currentPrompts) :
                                 /\ currentPrompts[i].id = promptId
                                 /\ \A j \in 1..(i - 1) : currentPrompts[j].id # promptId]
       IN /\ selectedSystemPromptText' = selectedPrompt.text
          /\ selectedPromptTitle' = selectedPrompt.title
    /\ userInput' = EmptyEditor
    /\ currentPastedImageBase64' = <<>>
    /\ locallyStagedImage' = resetLocallyStagedImage
    /\ pendingImageForCopy' = clearPendingImageFromBackground(pendingImageForCopy, workerReachable)
    /\ stagedAtCopy' = ClearedAtCopy(stagedAtCopy, workerReachable)
    /\ view' = showView(view, VIEWS.INPUT)
    /\ lastOp' = [op |-> "handleSelectPrompt", reachable |-> workerReachable]
    /\ UNCHANGED <<store, local, currentPrompts, currentEditingId, faulted, pendingButton, backgroundVars>>

\* handleAddPromptClick()
HandleAddPromptClick ==
    /\ Step
    /\ Displayed(VIEWS.LIST)
    /\ Len(currentPrompts) < MaxStore
    /\ currentEditingId' = NoId
    /\ pendingImageForCopy' = clearPendingImageFromBackground(pendingImageForCopy, workerReachable)
    /\ stagedAtCopy' = ClearedAtCopy(stagedAtCopy, workerReachable)
    /\ locallyStagedImage' = resetLocallyStagedImage
    /\ currentPastedImageBase64' = <<>>
    /\ view' = showView(view, VIEWS.EDIT)
    /\ lastOp' = [op |-> "handleAddPromptClick", reachable |-> workerReachable]
    /\ UNCHANGED <<store, local, currentPrompts, faulted>>
    /\ UNCHANGED <<selectedSystemPromptText, selectedPromptTitle, userInput, pendingButton, backgroundVars>>

\* handleEditPrompt(promptId), from the edit icon of a listed prompt
HandleEditPrompt(promptId) ==
    /\ Step
    /\ Displayed(VIEWS.LIST)
    /\ promptId \in ListedIds
    /\ currentEditingId' = promptId
    /\ pendingImageForCopy' = clearPendingImageFromBackground(pendingImageForCopy, workerReachable)
    /\ stagedAtCopy' = ClearedAtCopy(stagedAtCopy, workerReachable)
    /\ locallyStagedImage' = resetLocallyStagedImage
    /\ currentPastedImageBase64' = <<>>
    /\ view' = showView(view, VIEWS.EDIT)
    /\ lastOp' = [op |-> "handleEditPrompt", reachable |-> workerReachable]
    /\ UNCHANGED <<store, local, currentPrompts, faulted>>
    /\ UNCHANGED <<selectedSystemPromptText, selectedPromptTitle, userInput, pendingButton, backgroundVars>>

\* handleBackToListClick()
HandleBackToListClick ==
    /\ Step
    /\ Displayed(VIEWS.INPUT)
    /\ selectedSystemPromptText' = <<>>
    /\ userInput' = EmptyEditor
    /\ currentPastedImageBase64' = <<>>
    /\ locallyStagedImage' = resetLocallyStagedImage
    /\ pendingImageForCopy' = clearPendingImageFromBackground(pendingImageForCopy, workerReachable)
    /\ stagedAtCopy' = ClearedAtCopy(stagedAtCopy, workerReachable)
    /\ view' = showView(view, VIEWS.LIST)
    /\ pendingButton' = updatePendingImageCopyButtonVisibility(pendingImageForCopy', workerReachable)
    /\ lastOp' = [op |-> "handleBackToListClick", reachable |-> workerReachable]
    /\ UNCHANGED <<store, local, currentPrompts, currentEditingId, faulted, selectedPromptTitle, backgroundVars>>

\* handleCancelAddEditClick()
HandleCancelAddEditClick ==
    /\ Step
    /\ Displayed(VIEWS.EDIT)
    /\ currentEditingId' = NoId
    /\ pendingImageForCopy' = clearPendingImageFromBackground(pendingImageForCopy, workerReachable)
    /\ stagedAtCopy' = ClearedAtCopy(stagedAtCopy, workerReachable)
    /\ locallyStagedImage' = resetLocallyStagedImage
    /\ currentPastedImageBase64' = <<>>
    /\ view' = showView(view, VIEWS.LIST)
    /\ pendingButton' = updatePendingImageCopyButtonVisibility(pendingImageForCopy', workerReachable)
    /\ lastOp' = [op |-> "handleCancelAddEditClick", reachable |-> workerReachable]
    /\ UNCHANGED <<store, local, currentPrompts, faulted>>
    /\ UNCHANGED <<selectedSystemPromptText, selectedPromptTitle, userInput, backgroundVars>>

\* the save button listener: currentEditingId = await handleSavePrompt(...),
\* then backupToday(currentPrompts)
SaveButtonClick(titleInput, textInput, now, fail) ==
    LET title == Trim(titleInput)
        text == Trim(textInput)
        promptToSave == [id |-> IF currentEditingId # NoId THEN currentEditingId ELSE <<now>>,
                         title |-> title, text |-> text]
        r == savePrompt(store, promptToSave, fail)
    IN /\ Step
       /\ Displayed(VIEWS.EDIT)
       /\ IF title = <<>> \/ text = <<>>
          THEN \* alert and `return;`: the listener assigns undefined
               /\ currentEditingId' = NoId
               /\ lastOp' = [op |-> "handleSavePrompt", error |-> "Validation"]
               /\ UNCHANGED <<store, currentPrompts, view, faulted, pendingButton>>
          ELSE IF r.error = "none"
          THEN /\ store' = r.items
               /\ currentPrompts' \in GetAllPrompts(r.items)
               /\ pendingButton' = updatePendingImageCopyButtonVisibility(pendingImageForCopy, workerReachable)
               /\ view' = showView(view, VIEWS.LIST)
               /\ currentEditingId' = NoId
               /\ lastOp' = [op |-> "handleSavePrompt", error |-> "none"]
               /\ UNCHANGED faulted
          ELSE /\ store' = r.items
               /\ lastOp' = [op |-> "handleSavePrompt", error |-> r.error]
               /\ faulted' = TRUE
               /\ UNCHANGED <<currentPrompts, view, currentEditingId, pendingButton>>
       /\ local' = backupToday(local, currentPrompts', TimeValue(now))
       /\ UNCHANGED <<pendingImageForCopy, stagedAtCopy, editorVars, backgroundVars>>

\* handleDeletePrompt(promptId, ...), from the delete icon of a listed prompt
HandleDeletePrompt(promptId, confirmed, fail) ==
    LET r == deletePrompt(store, promptId, fail) IN
    /\ Step
    /\ Displayed(VIEWS.LIST)
    /\ promptId \in ListedIds
    /\ IF ~confirmed
       THEN /\ lastOp' = [op |-> "handleDeletePrompt", error |-> "declined", reachable |-> workerReachable]
            /\ UNCHANGED <<store, currentPrompts, faulted, pendingImageForCopy, stagedAtCopy, pendingButton>>
       ELSE IF r.error = "none"
       THEN /\ store' = r.items
            /\ pendingImageForCopy' = clearPendingImageFromBackground(pendingImageForCopy, workerReachable)
            /\ stagedAtCopy' = ClearedAtCopy(stagedAtCopy, workerReachable)
            /\ currentPrompts' \in GetAllPrompts(r.items)
            /\ pendingButton' = updatePendingImageCopyButtonVisibility(pendingImageForCopy', workerReachable)
            /\ lastOp' = [op |-> "handleDeletePrompt", error |-> "none", reachable |-> workerReachable]
            /\ UNCHANGED faulted
       ELSE /\ store' = r.items
            /\ lastOp' = [op |-> "handleDeletePrompt", error |-> r.error, reachable |-> workerReachable]
            /\ faulted' = TRUE
            /\ UNCHANGED <<currentPrompts, pendingImageForCopy, stagedAtCopy, pendingButton>>
    /\ UNCHANGED <<local, currentEditingId, view, editorVars, backgroundVars>>

\* handleExportPrompts(): the downloaded file; nothing is downloaded for an
\* empty list
HandleExportPrompts ==
    /\ Step
    /\ Displayed(VIEWS.LIST)
    /\ \E promptsToExport \in GetAllPrompts(store) :
          /\ exportedFile' = IF promptsToExport = <<>> THEN exportedFile
                             ELSE [i \in 1..Len(promptsToExport) |->
                                      [id |-> promptsToExport[i].id, title |-> promptsToExport[i].title,
                                       text |-> promptsToExport[i].text]]
          /\ lastOp' = [op |-> "handleExportPrompts", count |-> Len(promptsToExport)]
    /\ UNCHANGED <<store, local, currentPrompts, currentEditingId, view, faulted>>
    /\ UNCHANGED <<timeVars, inFlight, moreImages, workerVars, editorVars, pendingButton, clipboard, versionVars>>

\* handleFileImport(event): the reader's onload handler on a JSON file whose
\* content is the array importedData; newIds are the generated ids, which the
\* random suffix keeps apart from the stored ids and from each other
HandleFileImport(importedData, newIds, fails) ==
    LET promptsToImport == PromptsToImport(importedData) IN
    /\ Step
    /\ Displayed(VIEWS.LIST)
    /\ Len(currentPrompts) + Len(importedData) <= MaxStore + 1   \* a file may take the list one past the bound
    /\ Len(newIds) = Len(importedData)
    /\ \A i \in 1..Len(newIds) : newIds[i] \notin StoredIds(store)
    /\ \A i, j \in 1..Len(newIds) : i # j => newIds[i] # newIds[j]
    /\ IF promptsToImport = <<>>
       THEN /\ lastOp' = [op |-> "handleFileImport", importedCount |-> 0, file |-> importedData,
                          existing |-> <<>>, entries |-> <<>>, newIds |-> <<>>]
            /\ UNCHANGED <<store, currentPrompts, faulted, pendingButton>>
       ELSE \E existingPrompts \in GetAllPrompts(store) :
              LET existingTitles == {existingPrompts[i].title : i \in 1..Len(existingPrompts)}
                  r == ImportLoop(store, promptsToImport, 1, existingTitles, newIds, 0, fails)
              IN /\ store' = r.items
                 /\ currentPrompts' \in GetAllPrompts(r.items)
                 /\ pendingButton' = updatePendingImageCopyButtonVisibility(pendingImageForCopy, workerReachable)
                 /\ lastOp' = [op |-> "handleFileImport", importedCount |-> r.importedCount,
                               file |-> importedData, existing |-> existingPrompts,
                               entries |-> promptsToImport,
                               newIds |-> SubSeq(newIds, 1, Len(promptsToImport))]
                 /\ faulted' = (faulted \/ r.importedCount < Len(promptsToImport))
    /\ UNCHANGED <<local, currentEditingId, view, pendingImageForCopy, stagedAtCopy, editorVars, backgroundVars>>

\* the backup-now button listener
BackupNowClick(now) ==
    /\ Step
    /\ Displayed(VIEWS.LIST)
    /\ local' = backupToday(local, currentPrompts, TimeValue(now))
    /\ lastOp' = [op |-> "backupNow"]
    /\ UNCHANGED <<store, currentPrompts, currentEditingId, view, faulted>>
    /\ UNCHANGED <<pendingImageForCopy, stagedAtCopy, editorVars, pendingButton, backgroundVars>>

\* the restore button listener: the user picks entry `choice` of the list of
\* backups and answers `proceed` to the confirmation inside restoreBackup
RestoreButtonClick(choice, proceed) ==
    LET backups == listBackups(local) IN
    /\ Step
    /\ Displayed(VIEWS.LIST)
    /\ choice \in 1..Len(backups)
    /\ \E current \in GetAllPrompts(store) :
         LET r == restoreBackup(store, local, backups[choice].key, current, proceed, <<>>, <<>>)
         IN /\ store' = r.items
            /\ lastOp' = [op |-> "restoreBackup", key |-> backups[choice].key, proceed |-> proceed,
                          error |-> r.error, cancelled |-> r.cancelled,
                          saved |-> r.saved, failed |-> r.failed, total |-> r.total]
            /\ faulted' = (faulted \/ r.error # "none" \/ r.failed > 0)
            /\ IF r.error = "none" /\ ~r.cancelled
               THEN /\ currentPrompts' \in GetAllPrompts(r.items)
                    /\ pendingButton' = updatePendingImageCopyButtonVisibility(pendingImageForCopy, workerReachable)
               ELSE UNCHANGED <<currentPrompts, pendingButton>>
    /\ UNCHANGED <<local, currentEditingId, view, pendingImageForCopy, stagedAtCopy, editorVars, backgroundVars>>

NextPopup ==
    \/ \E now \in Timestamps : InitializePopup(now)
    \/ HandleAddPromptClick
    \/ \E id \in AddIds \cup ImportIds : HandleEditPrompt(id)
    \/ HandleCancelAddEditClick
    \/ \E t \in PopupTitleInputs, x \in PopupTextInputs, now \in Timestamps, fail \in 0..MaxFail :
          SaveButtonClick(t, x, now, fail)
    \/ \E id \in AddIds \cup ImportIds, confirmed \in BOOLEAN, fail \in 0..MaxFail :
          HandleDeletePrompt(id, confirmed, fail)
    \/ \E file \in ImportFiles, ids \in Orderings(ImportIds) :
          \E n \in 1..Len(ids) : HandleFileImport(file, SubSeq(ids, 1, n), <<>>)
    \/ \E now \in Timestamps : BackupNowClick(now)
    \/ \E choice \in 1..MAX_BACKUPS, proceed \in BOOLEAN : RestoreButtonClick(choice, proceed)

SpecPopup == Init /\ [][NextPopup]_vars

-----------------------------------------------------------------------------
(* The backup manager called directly, over several days *)

BackupPrompt == [id |-> <<"1">>, title |-> <<"a">>, text |-> ShortText]
BackupPromptLists == {<<>>, <<BackupPrompt>>}

\* time passes; the checks of the version checker no longer follow each other immediately
Tick ==
    /\ clock < MaxClock
    /\ clock' = clock + 1
    /\ checks' = <<>>
    /\ UNCHANGED <<store, local, currentPrompts, currentEditingId, view, lastOp, faulted, steps>>
    /\ UNCHANGED <<indexed, exportedFile, inFlight, moreImages, workerVars, editorVars, pendingButton, clipboard, lastVersionCheck,
                   checkInterval, latestVersion, badge>>

HasBackup(loc, key) == \E i \in 1..Len(readIndex(loc)) : readIndex(loc)[i].key = key

IndexedAt(key, now) == [k \in DOMAIN indexed \cup {key} |-> IF k = key THEN now ELSE indexed[k]]

backupFrame == <<store, currentPrompts, currentEditingId, view, faulted, steps, clock, exportedFile, inFlight, moreImages,
                 workerVars, editorVars, pendingButton, clipboard, versionVars>>

\* backupToday(prompts) at the current instant
BackupTodayCall(prompts) ==
    /\ local' = backupToday(local, prompts, clock)
    /\ indexed' = IndexedAt(todayKey(clock), clock)
    /\ lastOp' = [op |-> "backupToday", key |-> todayKey(clock), timestamp |-> clock,
                  snapshot |-> simplifyPrompts(prompts), skipped |-> FALSE,
                  existed |-> HasBackup(local, todayKey(clock)), lengthBefore |-> Len(readIndex(local)),
                  previous |-> SelectSeq(readIndex(local), LAMBDA e : e.key = todayKey(clock))]
    /\ UNCHANGED backupFrame

\* backupDailyIfMissing(prompts) at the current instant
BackupDailyIfMissingCall(prompts) ==
    /\ local' = backupDailyIfMissing(local, prompts, clock)
    /\ indexed' = IF HasBackup(local, todayKey(clock)) THEN indexed ELSE IndexedAt(todayKey(clock), clock)
    /\ lastOp' = [op |-> "backupDailyIfMissing", key |-> todayKey(clock), timestamp |-> clock,
                  snapshot |-> simplifyPrompts(prompts), skipped |-> HasBackup(local, todayKey(clock)),
                  existed |-> HasBackup(local, todayKey(clock)), lengthBefore |-> Len(readIndex(local)),
                  previous |-> SelectSeq(readIndex(local), LAMBDA e : e.key = todayKey(clock))]
    /\ UNCHANGED backupFrame

NextBackup ==
    \/ Tick
    \/ \E prompts \in BackupPromptLists : BackupTodayCall(prompts)
    \/ \E prompts \in BackupPromptLists : BackupDailyIfMissingCall(prompts)

\* the local storage after one backup of an unchanged empty list on each day of
\* seedDays, taken at the first instant of the day
RECURSIVE SeedBackups(_, _, _)
SeedBackups(loc, day, seedDays) ==
    IF day > SeedDays THEN loc
    ELSE SeedBackups(IF day \in seedDays THEN backupToday(loc, <<>>, TicksPerDay * (day - 1) + 1) ELSE loc,
                     day + 1, seedDays)

InitBackup ==
    /\ store = EmptyStore
    /\ \E seedDays \in SUBSET (1..SeedDays) :
          /\ local = SeedBackups([index |-> <<>>, bodies |-> NoBodies], 1, seedDays)
          /\ indexed = [k \in {todayKey(TicksPerDay * d) : d \in seedDays} |->
                          CHOOSE t \in 1..(TicksPerDay * SeedDays) :
                              t % TicksPerDay = 1 /\ todayKey(t) = k]
    /\ clock = TicksPerDay * SeedDays + 1
    /\ currentPrompts = <<>>
    /\ currentEditingId = NoId
    /\ view = InitialDisplay
    /\ lastOp = [op |-> "init"]
    /\ faulted = FALSE
    /\ steps = 0
    /\ exportedFile = <<>>
    /\ inFlight = <<>>
    /\ moreImages = <<>>
    /\ pendingImageForCopy = <<>>
    /\ workerReachable = TRUE
    /\ msgs = <<>>
    /\ stagedAtCopy = <<>>
    /\ selectedSystemPromptText = <<>>
    /\ selectedPromptTitle = <<>>
    /\ userInput = EmptyEditor
    /\ currentPastedImageBase64 = <<>>
    /\ locallyStagedImage = <<>>
    /\ pendingButton = <<>>
    /\ clipboard = <<>>
    /\ lastVersionCheck = 0
    /\ checkInterval = checkIntervalHours
    /\ latestVersion = <<>>
    /\ badge = <<>>
    /\ checks = <<>>

SpecBackup == InitBackup /\ [][NextBackup]_vars

-----------------------------------------------------------------------------
(* Export and import of the prompt list *)

\* the prompts the popup has added before: ids by Date.now(), any of the
\* titles and texts of the popup's inputs
ExportSeedPrompts(id) ==
    {[id |-> id, title |-> t, text |-> x] : t \in {<<"a">>, <<"M">>}, x \in {ShortText, TwoChunkText}}

ExportSeeds ==
    {<<>>} \cup {<<p>> : p \in ExportSeedPrompts(<<"1">>)}
           \cup {<<p, q>> : p \in ExportSeedPrompts(<<"1">>), q \in ExportSeedPrompts(<<"2">>)}

\* the store after savePrompt of each prompt of the list
RECURSIVE SeedStore(_, _)
SeedStore(items, prompts) ==
    IF prompts = <<>> THEN items
    ELSE SeedStore(savePrompt(items, Head(prompts), 0).items, Tail(prompts))

InitExport ==
    /\ \E seed \in ExportSeeds : store = SeedStore(EmptyStore, seed)
    /\ local = [index |-> <<>>, bodies |-> NoBodies]
    /\ currentPrompts \in GetAllPrompts(store)
    /\ currentEditingId = NoId
    /\ view = InitialDisplay
    /\ lastOp = [op |-> "init"]
    /\ faulted = FALSE
    /\ steps = 0
    /\ InitSession

NextExport ==
    \/ \E now \in Timestamps : InitializePopup(now)
    \/ HandleExportPrompts
    \/ \E id \in AddIds \cup ImportIds : HandleDeletePrompt(id, TRUE, 0)
    \/ \E ids \in Orderings(ImportIds) :
          \E n \in 1..Len(ids) : HandleFileImport(exportedFile, SubSeq(ids, 1, n), <<>>)

SpecExport == InitExport /\ [][NextExport]_vars

-----------------------------------------------------------------------------
(* The background worker's listener over one lifetime of the worker *)

PngA == <<"data:", "image/", "png", ";base64", ",", "A">>
JpegB == <<"data:", "image/", "jpeg", ";base64", ",", "B">>

StoreRequest(dataURI, title) ==
    [action |-> "storeImageForCopy", dataURI |-> dataURI,
     mimeType |-> parseDataURI(dataURI)[1].mimeType, associatedPromptTitle |-> title]

WorkerRequests ==
    {StoreRequest(PngA, <<"a">>), StoreRequest(JpegB, <<"M">>),
     [action |-> "retrieveImageForCopy"], [action |-> "clearStoredImage"],
     [action |-> "forceVersionCheck"], [action |-> "ping"]}

\* the listener runs on one message
ReceiveMessage(request) ==
    LET r == OnMessage(pendingImageForCopy, request) IN
    /\ Len(msgs) < MaxMsgs
    /\ msgs' = Append(msgs, request)
    /\ pendingImageForCopy' = r.slot
    /\ lastOp' = [op |-> "onMessage", request |-> request, response |-> r.response,
                  slotBefore |-> pendingImageForCopy]
    /\ UNCHANGED <<store, local, currentPrompts, currentEditingId, view, faulted, steps>>
    /\ UNCHANGED <<timeVars, exportedFile, inFlight, moreImages, workerReachable, stagedAtCopy, editorVars, pendingButton,
                   clipboard, versionVars>>

NextWorker == \E request \in WorkerRequests : ReceiveMessage(request)

SpecWorker == Init /\ [][NextWorker]_vars

-----------------------------------------------------------------------------
(* The input view: paste, copy and the pending image *)

EditorTexts == {<<>>, <<" ">>, <<"t">>}

\* what a paste event carries: no clipboard data at all, an image file (which
\* the FileReader may fail to read), or text, pasted over the whole content
\* of the editor or at the caret
PasteEvents ==
    {[kind |-> "none", text |-> <<"t">>]}
    \cup {[kind |-> "image", file |-> [readable |-> TRUE, dataURI |-> d]] : d \in {PngA, JpegB}}
    \cup {[kind |-> "image", file |-> [readable |-> FALSE, dataURI |-> <<>>]]}
    \cup {[kind |-> "text", text |-> <<"t">>, replaces |-> b] : b \in BOOLEAN}

\* handlePasteOnUserInput(event)
HandlePasteOnUserInput(paste) ==
    /\ Step
    /\ Displayed(VIEWS.INPUT)
    /\ CASE paste.kind = "none" ->
              LET editor == [text |-> userInput.text \o paste.text, img |-> userInput.img]
                  h == handleUserInputOnInput(editor, currentPastedImageBase64, locallyStagedImage)
              IN /\ userInput' = editor
                 /\ currentPastedImageBase64' = h.pasted
                 /\ locallyStagedImage' = h.staged
                 /\ UNCHANGED <<pendingImageForCopy, stagedAtCopy>>
         [] paste.kind = "image" ->
              LET r == processPastedImage(paste.file)
                  editor == [text |-> userInput.text, img |-> r.inserted]
                  h == handleUserInputOnInput(editor, r.returned, r.staged)
              IN /\ pendingImageForCopy' = clearPendingImageFromBackground(pendingImageForCopy, workerReachable)
                 /\ stagedAtCopy' = ClearedAtCopy(stagedAtCopy, workerReachable)
                 /\ userInput' = editor
                 /\ currentPastedImageBase64' = h.pasted
                 /\ locallyStagedImage' = h.staged
         [] paste.kind = "text" ->
              LET clearsState == userInput.img # <<>> /\ currentPastedImageBase64 # <<>>
                  editor == IF paste.replaces THEN [text |-> paste.text, img |-> <<>>]
                            ELSE [text |-> userInput.text \o paste.text, img |-> userInput.img]
                  h == handleUserInputOnInput(editor,
                           IF clearsState THEN <<>> ELSE currentPastedImageBase64,
                           IF clearsState THEN resetLocallyStagedImage ELSE locallyStagedImage)
              IN /\ pendingImageForCopy' = clearPendingImageFromBackground(pendingImageForCopy, workerReachable)
                 /\ stagedAtCopy' = ClearedAtCopy(stagedAtCopy, workerReachable)
                 /\ userInput' = editor
                 /\ currentPastedImageBase64' = h.pasted
                 /\ locallyStagedImage' = h.staged
    /\ lastOp' = [op |-> "handlePasteOnUserInput", kind |-> paste.kind, reachable |-> workerReachable]
    /\ UNCHANGED <<store, local, currentPrompts, currentEditingId, view, faulted>>
    /\ UNCHANGED <<selectedSystemPromptText, selectedPromptTitle, pendingButton, backgroundVars>>

\* the input event of the editor: the user has typed or deleted text, or
\* deleted the image
HandleUserInputOnInput(text, keepsImage) ==
    LET editor == [text |-> text, img |-> IF keepsImage THEN userInput.img ELSE <<>>]
        h == handleUserInputOnInput(editor, currentPastedImageBase64, locallyStagedImage)
    IN /\ Step
       /\ Displayed(VIEWS.INPUT)
       /\ editor # userInput
       /\ userInput' = editor
       /\ currentPastedImageBase64' = h.pasted
       /\ locallyStagedImage' = h.staged
       /\ lastOp' = [op |-> "handleUserInputOnInput"]
       /\ UNCHANGED <<store, local, currentPrompts, currentEditingId, view, faulted>>
       /\ UNCHANGED <<selectedSystemPromptText, selectedPromptTitle, pendingImageForCopy, stagedAtCopy,
                      pendingButton, backgroundVars>>

\* handleCopyOutputClick(); writeOk: navigator.clipboard.write resolves
HandleCopyOutputClick(writeOk) ==
    LET userTextContent == Trim(userInput.text)
        hasText == Len(userTextContent) > 0
        imageIsVisuallyPresent == userInput.img # <<>>
        canDoAdvancedImageCopy == currentPastedImageBase64 # <<>> /\ locallyStagedImage # <<>>
        plainTextOutput == PlainTextOutput(selectedSystemPromptText, userTextContent,
                                           imageIsVisuallyPresent, canDoAdvancedImageCopy)
        htmlOutput == HtmlOutput(selectedSystemPromptText, userInput)
        outcome == [op |-> "handleCopyOutputClick", systemPromptText |-> selectedSystemPromptText,
                    userTextContent |-> userTextContent, imageIsVisuallyPresent |-> imageIsVisuallyPresent,
                    canDoAdvancedImageCopy |-> canDoAdvancedImageCopy, reachable |-> workerReachable,
                    slotBefore |-> pendingImageForCopy]
    IN /\ Step
       /\ Displayed(VIEWS.INPUT)
       /\ IF ~hasText /\ ~imageIsVisuallyPresent
          THEN /\ lastOp' = [outcome EXCEPT !.op = "handleCopyOutputClick: no content"]
               /\ UNCHANGED <<clipboard, pendingImageForCopy, stagedAtCopy>>
          ELSE IF selectedSystemPromptText = <<>>
          THEN /\ lastOp' = [outcome EXCEPT !.op = "handleCopyOutputClick: no system prompt"]
               /\ UNCHANGED <<clipboard, pendingImageForCopy, stagedAtCopy>>
          ELSE IF ~writeOk
          THEN /\ lastOp' = [outcome EXCEPT !.op = "handleCopyOutputClick: write failed"]
               /\ UNCHANGED <<clipboard, pendingImageForCopy, stagedAtCopy>>
          ELSE /\ clipboard' = <<[writer |-> "handleCopyOutputClick",
                                  item |-> CopyClipboardItem(htmlOutput, plainTextOutput)]>>
               /\ lastOp' = outcome
               /\ IF canDoAdvancedImageCopy /\ workerReachable
                  THEN LET r == OnMessage(pendingImageForCopy,
                                    [action |-> "storeImageForCopy",
                                     dataURI |-> locallyStagedImage[1].dataURI,
                                     mimeType |-> locallyStagedImage[1].mimeType,
                                     associatedPromptTitle |-> IF selectedPromptTitle # <<>>
                                                               THEN selectedPromptTitle
                                                               ELSE <<"Selected Prompt">>])
                       IN /\ pendingImageForCopy' = IF r.response.success THEN r.slot
                                                    ELSE clearPendingImageFromBackground(r.slot, workerReachable)
                          /\ stagedAtCopy' = IF r.response.success THEN <<locallyStagedImage[1].dataURI>>
                                             ELSE <<>>
                  ELSE /\ pendingImageForCopy' =
                             clearPendingImageFromBackground(pendingImageForCopy, workerReachable)
                       /\ stagedAtCopy' = ClearedAtCopy(stagedAtCopy, workerReachable)
       /\ UNCHANGED <<store, local, currentPrompts, currentEditingId, view, faulted, editorVars, pendingButton>>
       /\ UNCHANGED <<timeVars, exportedFile, inFlight, moreImages, workerReachable, msgs, versionVars>>

\* handlePendingImageCopy(buttonElement), run by a click on the button
HandlePendingImageCopy(writeOk) ==
    /\ Step
    /\ Displayed(VIEWS.LIST)
    /\ pendingButton # <<>>
    /\ ~pendingButton[1].disabled
    /\ IF ~workerReachable
       THEN /\ lastOp' = [op |-> "handlePendingImageCopy: no worker", reachable |-> FALSE,
                                  staged |-> stagedAtCopy]
            /\ UNCHANGED <<clipboard, pendingImageForCopy, stagedAtCopy, pendingButton>>
       ELSE LET response == OnMessage(pendingImageForCopy, [action |-> "retrieveImageForCopy"]).response
                parsed == IF response.success THEN parseDataURI(response.data[1].dataURI) ELSE <<>>
                blob == IF parsed # <<>> THEN base64ToBlob(parsed[1].base64Data, parsed[1].mimeType)
                        ELSE <<>>
            IN IF ~(response.success /\ response.data # <<>>)
               THEN /\ pendingButton' = <<[pendingButton[1] EXCEPT !.label = "Error: Image data lost!"]>>
                    /\ lastOp' = [op |-> "handlePendingImageCopy: data lost", reachable |-> TRUE,
                                  staged |-> stagedAtCopy]
                    /\ UNCHANGED <<clipboard, pendingImageForCopy, stagedAtCopy>>
               ELSE IF parsed = <<>> \/ blob = <<>>
               THEN /\ pendingButton' = <<[pendingButton[1] EXCEPT !.label = "Error Processing Image!"]>>
                    /\ lastOp' = [op |-> "handlePendingImageCopy: not processed", reachable |-> TRUE,
                                  staged |-> stagedAtCopy]
                    /\ UNCHANGED <<clipboard, pendingImageForCopy, stagedAtCopy>>
               ELSE IF ~writeOk
               THEN /\ pendingButton' = <<[pendingButton[1] EXCEPT !.label = "Error Copying Image!"]>>
                    /\ lastOp' = [op |-> "handlePendingImageCopy: write failed", reachable |-> TRUE,
                                  staged |-> stagedAtCopy]
                    /\ UNCHANGED <<clipboard, pendingImageForCopy, stagedAtCopy>>
               ELSE /\ clipboard' = <<[writer |-> "handlePendingImageCopy",
                                       item |-> ImageClipboardItem(parsed[1].mimeType, blob[1])]>>
                    /\ pendingButton' = <<[pendingButton[1] EXCEPT !.label = "Image Copied!",
                                                                   !.disabled = TRUE]>>
                    /\ pendingImageForCopy' =
                          clearPendingImageFromBackground(pendingImageForCopy, workerReachable)
                    /\ stagedAtCopy' = ClearedAtCopy(stagedAtCopy, workerReachable)
                    /\ lastOp' = [op |-> "handlePendingImageCopy", reachable |-> TRUE,
                                  staged |-> stagedAtCopy]
    /\ UNCHANGED <<store, local, currentPrompts, currentEditingId, view, faulted, editorVars>>
    /\ UNCHANGED <<timeVars, exportedFile, inFlight, moreImages, workerReachable, msgs, versionVars>>

\* the timer set by a successful pending-image copy removes the button
RemoveCopiedButton ==
    /\ pendingButton # <<>>
    /\ pendingButton[1].disabled
    /\ pendingButton' = <<>>
    /\ UNCHANGED <<store, local, currentPrompts, currentEditingId, view, lastOp, faulted, steps>>
    /\ UNCHANGED <<timeVars, exportedFile, inFlight, moreImages, workerVars, editorVars, clipboard, versionVars>>

\* the browser stops the idle worker; the next message starts a new one,
\* whose slot is null
WorkerRestart ==
    /\ pendingImageForCopy # <<>>
    /\ pendingImageForCopy' = <<>>
    /\ stagedAtCopy' = <<>>
    /\ UNCHANGED <<store, local, currentPrompts, currentEditingId, view, lastOp, faulted, steps>>
    /\ UNCHANGED <<timeVars, exportedFile, inFlight, moreImages, workerReachable, msgs, editorVars, pendingButton, clipboard,
                   versionVars>>

\* the extension context comes and goes: sendMessage rejects while it is gone
WorkerReachabilityChanges ==
    /\ workerReachable' = ~workerReachable
    /\ UNCHANGED <<store, local, currentPrompts, currentEditingId, view, lastOp, faulted, steps>>
    /\ UNCHANGED <<timeVars, exportedFile, inFlight, moreImages, pendingImageForCopy, msgs, stagedAtCopy, editorVars,
                   pendingButton, clipboard, versionVars>>

ImageSeed == <<[id |-> <<"1">>, title |-> <<"a">>, text |-> ShortText]>>

InitImage ==
    /\ store = SeedStore(EmptyStore, ImageSeed)
    /\ local = [index |-> <<>>, bodies |-> NoBodies]
    /\ currentPrompts \in GetAllPrompts(store)
    /\ currentEditingId = NoId
    /\ view = InitialDisplay
    /\ lastOp = [op |-> "init"]
    /\ faulted = FALSE
    /\ steps = 0
    /\ InitSession

NextImage ==
    \/ \E now \in {"1"} : InitializePopup(now)
    \/ \E id \in AddIds : HandleSelectPrompt(id)
    \/ \E id \in AddIds : HandleEditPrompt(id)
    \/ HandleAddPromptClick
    \/ HandleCancelAddEditClick
    \/ HandleBackToListClick
    \/ \E id \in AddIds, confirmed \in BOOLEAN, fail \in 0..1 : HandleDeletePrompt(id, confirmed, fail)
    \/ \E paste \in PasteEvents : HandlePasteOnUserInput(paste)
    \/ \E text \in EditorTexts, keepsImage \in BOOLEAN : HandleUserInputOnInput(text, keepsImage)
    \/ \E writeOk \in BOOLEAN : HandleCopyOutputClick(writeOk)
    \/ \E writeOk \in BOOLEAN : HandlePendingImageCopy(writeOk)
    \/ RemoveCopiedButton
    \/ WorkerRestart
    \/ WorkerReachabilityChanges

SpecImage == InitImage /\ [][NextImage]_vars

\* the timer of the copied button fires unless the popup is closed first
SpecImageFair == SpecImage /\ WF_vars(RemoveCopiedButton)

-----------------------------------------------------------------------------
(* The version checker called directly; `checks` lists the calls made since
   time last passed, each awaited before the next *)

versionFrame == <<store, local, currentPrompts, currentEditingId, view, lastOp, faulted, steps, timeVars,
                  exportedFile, inFlight, moreImages, workerVars, editorVars, pendingButton, clipboard>>

\* await versionChecker.checkVersion()
CheckVersionCall(fetchResult) ==
    LET r == checkVersion(lastVersionCheck, clock, checkInterval, fetchResult) IN
    /\ Len(checks) < MaxCalls
    /\ lastVersionCheck' = r.lastCheck
    /\ checks' = Append(checks, [op |-> "checkVersion", fetched |-> r.fetched,
                                 entry |-> r.fetched /\ fetchResult = "ok"])
    /\ \E latest \in RegistryVersions :
          /\ latestVersion' = storeLatestVersion(latestVersion, r.fetched /\ fetchResult = "ok", latest)
          /\ badge' = showUpdateNotification(badge, r.fetched /\ fetchResult = "ok", ManifestVersion, latest)
    /\ UNCHANGED <<checkInterval, versionFrame>>

\* await versionChecker.forceCheckVersion()
ForceCheckVersionCall(fetchResult) ==
    LET r == forceCheckVersion(lastVersionCheck, clock, fetchResult) IN
    /\ Len(checks) < MaxCalls
    /\ lastVersionCheck' = r.lastCheck
    /\ checks' = Append(checks, [op |-> "forceCheckVersion", fetched |-> r.fetched,
                                 entry |-> r.fetched /\ fetchResult = "ok"])
    /\ \E latest \in RegistryVersions :
          /\ latestVersion' = storeLatestVersion(latestVersion, r.fetched /\ fetchResult = "ok", latest)
          /\ badge' = showUpdateNotification(badge, r.fetched /\ fetchResult = "ok", ManifestVersion, latest)
    /\ UNCHANGED <<checkInterval, versionFrame>>

NextVersion ==
    \/ Tick
    \/ \E fetchResult \in FetchResults : CheckVersionCall(fetchResult)
    \/ \E fetchResult \in FetchResults : ForceCheckVersionCall(fetchResult)

SpecVersion == Init /\ [][NextVersion]_vars

-----------------------------------------------------------------------------
(* The comparison of versions on pairs of version strings *)

\* parts.join('.')
RECURSIVE JoinDots(_)
JoinDots(parts) ==
    IF Len(parts) = 1 THEN parts[1] ELSE parts[1] \o <<".">> \o JoinDots(Tail(parts))

\* versions in the format YY.MM.DD.HHMM
TimestampVersions ==
    {JoinDots(<<yy, mm, dd, hhmm>>) :
        yy \in {<<"2", "4">>, <<"2", "5">>}, mm \in {<<"0", "3">>, <<"1", "2">>},
        dd \in {<<"0", "9">>, <<"1", "0">>},
        hhmm \in {<<"0", "1", "0", "0">>, <<"0", "9", "0", "5">>, <<"2", "3", "5", "9">>}}

\* versions of one to MaxParts numeric components
SemanticParts == {<<"0">>, <<"2">>, <<"1", "0">>}
SemanticVersions == UNION {{JoinDots(parts) : parts \in [1..n -> SemanticParts]} : n \in 1..MaxParts}

\* the components of a timestamp version written without leading zeros
UnpaddedVersions ==
    {JoinDots(<<<<"2", "5">>, <<"3">>, <<"1", "0">>, <<"1", "0", "0">>>>),
     JoinDots(<<<<"2", "5">>, <<"3">>, <<"9">>, <<"9", "0", "5">>>>)}

VersionInputs == TimestampVersions \cup SemanticVersions \cup UnpaddedVersions

InitCompare ==
    /\ store = EmptyStore
    /\ local = [index |-> <<>>, bodies |-> NoBodies]
    /\ currentPrompts = <<>>
    /\ currentEditingId = NoId
    /\ view = InitialDisplay
    /\ \E current \in VersionInputs, latest \in VersionInputs :
          lastOp = [op |-> "versions", current |-> current, latest |-> latest]
    /\ faulted = FALSE
    /\ steps = 0
    /\ InitSession

\* isOutdated(current, latest) and isOutdated(latest, current)
IsOutdatedCall ==
    /\ lastOp.op = "versions"
    /\ lastOp' = [op |-> "isOutdated", current |-> lastOp.current, latest |-> lastOp.latest,
                  result |-> isOutdated(lastOp.current, lastOp.latest),
                  swapped |-> isOutdated(lastOp.latest, lastOp.current)]
    /\ UNCHANGED <<store, local, currentPrompts, currentEditingId, view, faulted, steps, sessionVars>>

NextCompare == IsOutdatedCall

SpecCompare == InitCompare /\ [][NextCompare]_vars

-----------------------------------------------------------------------------
(* The UI manager called directly, in a popup that is opened and reopened *)

\* identifiers passed to showView: the views, another element of the
\* document, and the id of no element
ViewIdInputs == Range(VIEWS) \cup {"prompt-list", "settings-view"}

PendingImageInputs ==
    {OnMessage(<<>>, StoreRequest(PngA, <<"a">>)).slot[1],
     OnMessage(<<>>, StoreRequest(JpegB, <<"M">>)).slot[1]}

uiFrame == <<store, local, currentPrompts, currentEditingId, faulted, steps, timeVars, exportedFile, inFlight, moreImages,
             workerVars, selectedSystemPromptText, userInput, currentPastedImageBase64,
             locallyStagedImage, clipboard, versionVars>>

\* UIManager.showView(viewId)
ShowViewCall(viewId) ==
    /\ view' = showView(view, viewId)
    /\ lastOp' = [op |-> "showView", viewId |-> viewId]
    /\ UNCHANGED <<uiFrame, selectedPromptTitle, pendingButton>>

\* UIManager.setSelectedPromptTitle(title)
SetSelectedPromptTitleCall(title) ==
    /\ selectedPromptTitle' = title
    /\ lastOp' = [op |-> "setSelectedPromptTitle"]
    /\ UNCHANGED <<uiFrame, view, pendingButton>>

\* UIManager.showPendingImageCopyButton(pendingImageData, onCopyPendingImage)
ShowPendingImageCopyButtonCall(pendingImageData) ==
    /\ pendingButton' = <<[label |-> "Copy Image", data |-> pendingImageData, disabled |-> FALSE]>>
    /\ lastOp' = [op |-> "showPendingImageCopyButton"]
    /\ UNCHANGED <<uiFrame, view, selectedPromptTitle>>

\* UIManager.removePendingImageCopyButton()
RemovePendingImageCopyButtonCall ==
    /\ pendingButton' = <<>>
    /\ lastOp' = [op |-> "removePendingImageCopyButton"]
    /\ UNCHANGED <<uiFrame, view, selectedPromptTitle>>

NextUI ==
    \/ \E now \in Timestamps : InitializePopup(now)
    \/ \E viewId \in ViewIdInputs : ShowViewCall(viewId)
    \/ \E title \in StoreTitles : SetSelectedPromptTitleCall(title)
    \/ \E pendingImageData \in PendingImageInputs : ShowPendingImageCopyButtonCall(pendingImageData)
    \/ RemovePendingImageCopyButtonCall

SpecUI == Init /\ [][NextUI]_vars

-----------------------------------------------------------------------------
(* One savePrompt or deletePrompt call on a store filled by earlier saves,
   with a chrome.storage call that rejects *)

\* a text within MAX_CHUNK_LENGTH whose characters take four bytes each
WideText == <<"W", "X", "Y">>

SaveInputs ==
    PromptObjects \cup InvalidPromptObjects
        \cup {[id |-> <<"1">>, title |-> <<"a">>, text |-> WideText]}

InitSave ==
    /\ \E seed \in ExportSeeds : store = SeedStore(EmptyStore, seed)
    /\ local = [index |-> <<>>, bodies |-> NoBodies]
    /\ currentPrompts = <<>>
    /\ currentEditingId = NoId
    /\ view = InitialDisplay
    /\ lastOp = [op |-> "init"]
    /\ faulted = FALSE
    /\ steps = 0
    /\ InitSession

DeleteInputs == StoreIds \cup {NoId, NotAString, <<" ">>}

NextSave ==
    \/ \E p \in SaveInputs, fail \in (-MaxRejected)..MaxRejected :
          /\ lastOp.op = "init"
          /\ SavePromptCall(p, fail)
    \/ \E promptId \in DeleteInputs, fail \in 0..MaxRejected :
          /\ lastOp.op = "init"
          /\ DeletePromptCall(promptId, fail)

SpecSave == InitSave /\ [][NextSave]_vars

-----------------------------------------------------------------------------
(* One restoreBackup call on a store and a backup left by earlier saves,
   with storage-manager calls that fail *)

\* the fault of the first and of the second call of a loop
RestoreFaults == [1..2 -> 0..MaxRestoreFault]

\* the prompt lists earlier saves have left in the store and in the backup
RestoreSeeds ==
    {<<>>} \cup {<<p>> : p \in ExportSeedPrompts(<<"1">>)}
           \cup {<<[id |-> <<"1">>, title |-> <<"a">>, text |-> ShortText], q>> :
                     q \in ExportSeedPrompts(<<"2">>)}

InitRestore ==
    /\ \E seed \in RestoreSeeds : store = SeedStore(EmptyStore, seed)
    /\ \E seed \in RestoreSeeds :
          local = backupToday([index |-> <<>>, bodies |-> NoBodies], seed, 1)
    /\ currentPrompts = <<>>
    /\ currentEditingId = NoId
    /\ view = InitialDisplay
    /\ lastOp = [op |-> "init"]
    /\ faulted = FALSE
    /\ steps = 0
    /\ InitSession

\* restoreBackup(key)
RestoreBackupCall(key, proceed, deleteFails, saveFails) ==
    /\ lastOp.op = "init"
    /\ \E current \in GetAllPrompts(store) :
         LET r == restoreBackup(store, local, key, current, proceed, deleteFails, saveFails)
         IN /\ store' = r.items
            /\ lastOp' = [op |-> "restoreBackup", key |-> key, proceed |-> proceed,
                          error |-> r.error, cancelled |-> r.cancelled,
                          saved |-> r.saved, failed |-> r.failed, total |-> r.total,
                          current |-> [i \in 1..Len(current) |-> current[i].id],
                          attempts |-> r.attempts]
            /\ faulted' = (faulted \/ r.error # "none" \/ r.failed > 0)
    /\ UNCHANGED popupVars

NextRestore ==
    \E key \in {todayKey(1), todayKey(TicksPerDay + 1)}, proceed \in BOOLEAN,
       deleteFails \in RestoreFaults, saveFails \in RestoreFaults :
        RestoreBackupCall(key, proceed, deleteFails, saveFails)

SpecRestore == InitRestore /\ [][NextRestore]_vars

-----------------------------------------------------------------------------
(* The popup on a store filled by earlier saves, with chrome.storage calls
   that reject *)

\* the lists shown by a popup that earlier saves have filled
InitPopupFaults ==
    /\ \E seed \in RestoreSeeds : store = SeedStore(EmptyStore, seed)
    /\ local = [index |-> <<>>, bodies |-> NoBodies]
    /\ currentPrompts \in GetAllPrompts(store)
    /\ currentEditingId = NoId
    /\ view = InitialDisplay
    /\ lastOp = [op |-> "init"]
    /\ faulted = FALSE
    /\ steps = 0
    /\ InitSession

\* Date.now() of a save differs from the ids given out before
NextPopupFaults ==
    \/ steps < MaxFaultSteps /\ HandleAddPromptClick
    \/ \E id \in AddIds : steps < MaxFaultSteps /\ HandleEditPrompt(id)
    \/ steps < MaxFaultSteps /\ HandleCancelAddEditClick
    \/ \E t \in {<<"a">>, <<" ">>}, x \in {ShortText, TwoChunkText}, now \in Timestamps,
          fail \in (-MaxRejected)..MaxRejected :
            /\ steps < MaxFaultSteps
            /\ currentEditingId = NoId => <<now>> \notin StoredIds(store)
            /\ SaveButtonClick(t, x, now, fail)
    \/ \E id \in AddIds, confirmed \in BOOLEAN, fail \in 0..MaxRejected :
          steps < MaxFaultSteps /\ HandleDeletePrompt(id, confirmed, fail)
    \/ \E fails \in RestoreFaults :
          /\ steps < MaxFaultSteps
          /\ HandleFileImport(<<ImportItemA, ImportItemM>>, <<<<"1", "-x">>, <<"2", "-x">>>>, fails)

SpecPopupFaults == InitPopupFaults /\ [][NextPopupFaults]_vars

-----------------------------------------------------------------------------
(* The popup with handlers that overlap.  An async handler runs to its next
   await and is suspended there; a second event may start a handler before
   the first one resumes.  A message to the worker is answered, and a storage
   call settled, when the handler that awaits it resumes; an await of a value
   that is no promise resumes before any other event.  lastOp is the handler
   started last. *)

\* a suspended call: its handler, the await it is at, and the locals it resumes with
Task(handler, at, locals) == [handler |-> handler, at |-> at, locals |-> locals]

RemoveAt(s, i) == SubSeq(s, 1, i - 1) \o SubSeq(s, i + 1, Len(s))

\* the awaits of a message to the worker; the worker answers its messages in
\* the order they were sent
WorkerAwaits == {"clearPendingImageFromBackground", "updatePendingImageCopyButtonVisibility"}

\* the positions of the handlers that can resume from an await; inFlight is
\* in the order the handlers were suspended
SuspendedAt(handler, at) ==
    {i \in 1..Len(inFlight) :
        /\ inFlight[i].handler = handler
        /\ inFlight[i].at = at
        /\ at \in WorkerAwaits => \A j \in 1..(i - 1) : inFlight[j].at \notin WorkerAwaits}

\* the handler at position i is suspended again, at the next await
SuspendAgain(i, at) == Append(RemoveAt(inFlight, i), [inFlight[i] EXCEPT !.at = at])

\* a handler starts and runs to its first await
Starts == steps < MaxStarts /\ Len(inFlight) < MaxInFlight /\ steps' = steps + 1

\* await clearPendingImageFromBackground() resumes
ClearSettles ==
    /\ pendingImageForCopy' = clearPendingImageFromBackground(pendingImageForCopy, workerReachable)
    /\ stagedAtCopy' = ClearedAtCopy(stagedAtCopy, workerReachable)

\* clearUserInputFullState()
clearUserInputFullState ==
    /\ userInput' = EmptyEditor
    /\ moreImages' = <<>>
    /\ currentPastedImageBase64' = <<>>
    /\ locallyStagedImage' = resetLocallyStagedImage

\* what no handler of the popup changes
asyncFrame == <<timeVars, exportedFile, workerReachable, msgs, clipboard, versionVars>>

\* handleSelectPrompt(promptId)
SelectPromptAsync(promptId) ==
    \/ /\ Starts
       /\ Displayed(VIEWS.LIST)
       /\ promptId \in ListedIds
       /\ LET selectedPrompt == currentPrompts[CHOOSE i \in 1..Len(currentPrompts) :
                                    /\ currentPrompts[i].id = promptId
                                    /\ \A j \in 1..(i - 1) : currentPrompts[j].id # promptId]
          IN /\ selectedSystemPromptText' = selectedPrompt.text
             /\ selectedPromptTitle' = selectedPrompt.title
       /\ clearUserInputFullState
       /\ inFlight' = Append(inFlight, Task("handleSelectPrompt", "clearPendingImageFromBackground", promptId))
       /\ lastOp' = [op |-> "handleSelectPrompt", id |-> promptId]
       /\ UNCHANGED <<store, local, currentPrompts, currentEditingId, view, faulted, pendingImageForCopy,
                      stagedAtCopy, pendingButton, asyncFrame>>
    \/ \E i \in SuspendedAt("handleSelectPrompt", "clearPendingImageFromBackground") :
          /\ inFlight[i].locals = promptId
          /\ ClearSettles
          /\ view' = showView(view, VIEWS.INPUT)
          /\ inFlight' = RemoveAt(inFlight, i)
          /\ UNCHANGED <<store, local, currentPrompts, currentEditingId, lastOp, faulted, steps, moreImages,
                         editorVars, pendingButton, asyncFrame>>

\* handleEditPrompt(promptId)
EditPromptAsync(promptId) ==
    \/ /\ Starts
       /\ Displayed(VIEWS.LIST)
       /\ promptId \in ListedIds
       /\ currentEditingId' = promptId
       /\ inFlight' = Append(inFlight, Task("handleEditPrompt", "clearPendingImageFromBackground", promptId))
       /\ lastOp' = [op |-> "handleEditPrompt", id |-> promptId]
       /\ UNCHANGED <<store, local, currentPrompts, view, faulted, moreImages, pendingImageForCopy,
                      stagedAtCopy, editorVars, pendingButton, asyncFrame>>
    \/ \E i \in SuspendedAt("handleEditPrompt", "clearPendingImageFromBackground") :
          /\ inFlight[i].locals = promptId
          /\ ClearSettles
          /\ locallyStagedImage' = resetLocallyStagedImage
          /\ currentPastedImageBase64' = <<>>
          /\ view' = showView(view, VIEWS.EDIT)
          /\ inFlight' = RemoveAt(inFlight, i)
          /\ UNCHANGED <<store, local, currentPrompts, currentEditingId, lastOp, faulted, steps, moreImages,
                         selectedSystemPromptText, selectedPromptTitle, userInput, pendingButton, asyncFrame>>

\* handleAddPromptClick()
AddPromptClickAsync ==
    \/ /\ Starts
       /\ Displayed(VIEWS.LIST)
       /\ currentEditingId' = NoId
       /\ inFlight' = Append(inFlight, Task("handleAddPromptClick", "clearPendingImageFromBackground", NoId))
       /\ lastOp' = [op |-> "handleAddPromptClick"]
       /\ UNCHANGED <<store, local, currentPrompts, view, faulted, moreImages, pendingImageForCopy,
                      stagedAtCopy, editorVars, pendingButton, asyncFrame>>
    \/ \E i \in SuspendedAt("handleAddPromptClick", "clearPendingImageFromBackground") :
          /\ ClearSettles
          /\ locallyStagedImage' = resetLocallyStagedImage
          /\ currentPastedImageBase64' = <<>>
          /\ view' = showView(view, VIEWS.EDIT)
          /\ inFlight' = RemoveAt(inFlight, i)
          /\ UNCHANGED <<store, local, currentPrompts, currentEditingId, lastOp, faulted, steps, moreImages,
                         selectedSystemPromptText, selectedPromptTitle, userInput, pendingButton, asyncFrame>>

\* handleBackToListClick()
BackToListClickAsync ==
    \/ /\ Starts
       /\ Displayed(VIEWS.INPUT)
       /\ selectedSystemPromptText' = <<>>
       /\ clearUserInputFullState
       /\ inFlight' = Append(inFlight, Task("handleBackToListClick", "clearPendingImageFromBackground", NoId))
       /\ lastOp' = [op |-> "handleBackToListClick"]
       /\ UNCHANGED <<store, local, currentPrompts, currentEditingId, view, faulted, pendingImageForCopy,
                      stagedAtCopy, selectedPromptTitle, pendingButton, asyncFrame>>
    \/ \E i \in SuspendedAt("handleBackToListClick", "clearPendingImageFromBackground") :
          /\ ClearSettles
          /\ view' = showView(view, VIEWS.LIST)
          /\ pendingButton' = <<>>
          /\ inFlight' = SuspendAgain(i, "updatePendingImageCopyButtonVisibility")
          /\ UNCHANGED <<store, local, currentPrompts, currentEditingId, lastOp, faulted, steps, moreImages,
                         editorVars, asyncFrame>>
    \/ \E i \in SuspendedAt("handleBackToListClick", "updatePendingImageCopyButtonVisibility") :
          /\ pendingButton' = updatePendingImageCopyButtonVisibility(pendingImageForCopy, workerReachable)
          /\ inFlight' = RemoveAt(inFlight, i)
          /\ UNCHANGED <<store, local, currentPrompts, currentEditingId, view, lastOp, faulted, steps,
                         moreImages, pendingImageForCopy, stagedAtCopy, editorVars, asyncFrame>>

\* handleCancelAddEditClick()
CancelAddEditClickAsync ==
    \/ /\ Starts
       /\ Displayed(VIEWS.EDIT)
       /\ currentEditingId' = NoId
       /\ inFlight' = Append(inFlight, Task("handleCancelAddEditClick", "clearPendingImageFromBackground", NoId))
       /\ lastOp' = [op |-> "handleCancelAddEditClick"]
       /\ UNCHANGED <<store, local, currentPrompts, view, faulted, moreImages, pendingImageForCopy,
                      stagedAtCopy, editorVars, pendingButton, asyncFrame>>
    \/ \E i \in SuspendedAt("handleCancelAddEditClick", "clearPendingImageFromBackground") :
          /\ ClearSettles
          /\ locallyStagedImage' = resetLocallyStagedImage
          /\ currentPastedImageBase64' = <<>>
          /\ view' = showView(view, VIEWS.LIST)
          /\ pendingButton' = <<>>
          /\ inFlight' = SuspendAgain(i, "updatePendingImageCopyButtonVisibility")
          /\ UNCHANGED <<store, local, currentPrompts, currentEditingId, lastOp, faulted, steps, moreImages,
                         selectedSystemPromptText, selectedPromptTitle, userInput, asyncFrame>>
    \/ \E i \in SuspendedAt("handleCancelAddEditClick", "updatePendingImageCopyButtonVisibility") :
          /\ pendingButton' = updatePendingImageCopyButtonVisibility(pendingImageForCopy, workerReachable)
          /\ inFlight' = RemoveAt(inFlight, i)
          /\ UNCHANGED <<store, local, currentPrompts, currentEditingId, view, lastOp, faulted, steps,
                         moreImages, pendingImageForCopy, stagedAtCopy, editorVars, asyncFrame>>

\* the click listener of the save button: handleSavePrompt(...), the
\* assignment of what it returns, then backupToday(currentPrompts); savePrompt
\* and the refresh settle when the listener resumes
SaveButtonClickAsync(titleInput, textInput, now, fail) ==
    \/ LET title == Trim(titleInput)
           text == Trim(textInput)
           promptToSave == [id |-> IF currentEditingId # NoId THEN currentEditingId ELSE <<now>>,
                            title |-> title, text |-> text]
       IN /\ Starts
          /\ Displayed(VIEWS.EDIT)
          /\ currentEditingId = NoId => <<now>> \notin StoredIds(store)
          /\ IF title = <<>> \/ text = <<>>
             THEN /\ currentEditingId' = NoId
                  /\ local' = backupToday(local, currentPrompts, TimeValue(now))
                  /\ UNCHANGED inFlight
             ELSE /\ inFlight' = Append(inFlight, Task("handleSavePrompt", "savePromptFn",
                                            [currentEditingId |-> currentEditingId, promptToSave |-> promptToSave]))
                  /\ UNCHANGED <<currentEditingId, local>>
          /\ lastOp' = [op |-> "handleSavePrompt"]
          /\ UNCHANGED <<store, currentPrompts, view, faulted, moreImages, pendingImageForCopy, stagedAtCopy,
                         editorVars, pendingButton, asyncFrame>>
    \/ \E i \in SuspendedAt("handleSavePrompt", "savePromptFn") :
          LET r == savePrompt(store, inFlight[i].locals.promptToSave, fail) IN
          /\ store' = r.items
          /\ IF r.error = "none"
             THEN /\ currentPrompts' \in GetAllPrompts(r.items)
                  /\ pendingButton' = updatePendingImageCopyButtonVisibility(pendingImageForCopy, workerReachable)
                  /\ view' = showView(view, VIEWS.LIST)
                  /\ currentEditingId' = NoId
                  /\ UNCHANGED faulted
             ELSE /\ currentEditingId' = inFlight[i].locals.currentEditingId
                  /\ faulted' = TRUE
                  /\ UNCHANGED <<currentPrompts, view, pendingButton>>
          /\ local' = backupToday(local, currentPrompts', TimeValue(now))
          /\ inFlight' = RemoveAt(inFlight, i)
          /\ UNCHANGED <<lastOp, steps, moreImages, pendingImageForCopy, stagedAtCopy, editorVars, asyncFrame>>

\* the img elements of the editor, in document order
EditorImages == (IF userInput.img = <<>> THEN <<>> ELSE <<userInput.img>>) \o moreImages

\* handlePasteOnUserInput(event) of an image file: suspended at the message to
\* the worker, then at the FileReader of convertFileToBase64
PasteImageAsync(imageFile) ==
    \/ /\ Starts
       /\ Displayed(VIEWS.INPUT)
       /\ inFlight' = Append(inFlight, Task("handlePasteOnUserInput", "clearPendingImageFromBackground", imageFile))
       /\ lastOp' = [op |-> "handlePasteOnUserInput", file |-> imageFile]
       /\ UNCHANGED <<store, local, currentPrompts, currentEditingId, view, faulted, moreImages,
                      pendingImageForCopy, stagedAtCopy, editorVars, pendingButton, asyncFrame>>
    \/ \E i \in SuspendedAt("handlePasteOnUserInput", "clearPendingImageFromBackground") :
          /\ inFlight[i].locals = imageFile
          /\ ClearSettles
          /\ locallyStagedImage' = resetLocallyStagedImage
          /\ currentPastedImageBase64' = <<>>
          \* querySelector('img') is the first img element only
          /\ userInput' = [userInput EXCEPT !.img = IF moreImages = <<>> THEN <<>> ELSE Head(moreImages)]
          /\ moreImages' = IF moreImages = <<>> THEN <<>> ELSE Tail(moreImages)
          /\ inFlight' = SuspendAgain(i, "convertFileToBase64")
          /\ UNCHANGED <<store, local, currentPrompts, currentEditingId, view, lastOp, faulted, steps,
                         selectedSystemPromptText, selectedPromptTitle, pendingButton, asyncFrame>>
    \/ \E i \in SuspendedAt("handlePasteOnUserInput", "convertFileToBase64") :
          LET r == processPastedImage(imageFile)
              images == IF r.inserted = <<>> THEN EditorImages ELSE Append(EditorImages, r.inserted)
              editor == [text |-> userInput.text, img |-> IF images = <<>> THEN <<>> ELSE Head(images)]
              h == handleUserInputOnInput(editor, r.returned,
                                          IF r.staged = <<>> THEN locallyStagedImage ELSE r.staged)
          IN /\ inFlight[i].locals = imageFile
             /\ userInput' = editor
             /\ moreImages' = IF images = <<>> THEN <<>> ELSE Tail(images)
             /\ currentPastedImageBase64' = h.pasted
             /\ locallyStagedImage' = h.staged
             /\ inFlight' = RemoveAt(inFlight, i)
             /\ UNCHANGED <<store, local, currentPrompts, currentEditingId, view, lastOp, faulted, steps,
                            selectedSystemPromptText, selectedPromptTitle, pendingImageForCopy, stagedAtCopy,
                            pendingButton, asyncFrame>>

PastedFiles == {[readable |-> TRUE, dataURI |-> d] : d \in {PngA, JpegB}}

NextAsync ==
    \/ \E id \in AddIds : SelectPromptAsync(id)
    \/ \E id \in AddIds : EditPromptAsync(id)
    \/ AddPromptClickAsync
    \/ BackToListClickAsync
    \/ CancelAddEditClickAsync
    \/ \E t \in {<<"a">>, <<" ">>}, now \in Timestamps, fail \in 0..1 : SaveButtonClickAsync(t, ShortText, now, fail)
    \/ \E file \in PastedFiles : PasteImageAsync(file)
    \/ WorkerReachabilityChanges

SpecAsync == InitImage /\ [][NextAsync]_vars

-----------------------------------------------------------------------------
(* savePrompt calls that overlap.  A call runs to its next chrome.storage
   call and is suspended there.  The storage area takes the calls in the order
   they are issued and settles them in that order: the effect of a call is
   applied when it is issued, and the call suspended longest resumes first.
   No call is rejected.  lastOp lists the prompt objects of the calls started. *)

\* the save phase up to its first chrome.storage.sync.set, for the call at
\* position i; a size check that fails throws
FirstSet(i) ==
    LET p == inFlight[i].locals.promptObject
        baseKey == BaseKey(p.id)
        itemToSave == [id |-> p.id, title |-> p.title, text |-> p.text]
        chunks == SplitChunks(p.text, 0)
        metadata == [id |-> p.id, title |-> p.title, chunkCount |-> Len(chunks)]
    IN IF Len(p.text) <= MAX_CHUNK_LENGTH
       THEN IF ItemByteLength(itemToSave) >= QUOTA_BYTES_PER_ITEM - Len(baseKey)
            THEN /\ inFlight' = RemoveAt(inFlight, i)
                 /\ faulted' = TRUE
                 /\ UNCHANGED store
            ELSE /\ store' = StorageSet(store, baseKey, itemToSave)
                 /\ inFlight' = SuspendAgain(i, "set dataToSave")
                 /\ UNCHANGED faulted
       ELSE IF MetadataByteLength(metadata) >= QUOTA_BYTES_PER_ITEM - Len(baseKey)
            THEN /\ inFlight' = RemoveAt(inFlight, i)
                 /\ faulted' = TRUE
                 /\ UNCHANGED store
            ELSE /\ store' = StorageSet(store, baseKey, metadata)
                 /\ inFlight' = SuspendAgain(i, "set chunkToSave")
                 /\ UNCHANGED faulted

\* what the storage manager leaves alone
saveStepFrame == <<local, currentPrompts, currentEditingId, view, timeVars, exportedFile, moreImages,
                   workerVars, editorVars, pendingButton, clipboard, versionVars>>

\* savePrompt(promptObject), one chrome.storage call at a time; locals.i is
\* the index of the chunk to write next
SavePromptSteps(promptObject) ==
    \/ /\ steps < MaxSaves
       /\ steps' = steps + 1
       /\ ValidPromptObject(promptObject)
       /\ inFlight' = Append(inFlight, Task("savePrompt", "get",
                                 [promptObject |-> promptObject, allItems |-> store, i |-> 0]))
       /\ lastOp' = [op |-> "savePrompt",
                     calls |-> (IF lastOp.op = "savePrompt" THEN lastOp.calls ELSE <<>>) \o <<promptObject>>]
       /\ UNCHANGED <<store, faulted, saveStepFrame>>
    \/ /\ inFlight # <<>>
       /\ inFlight[1].at = "get"
       /\ inFlight[1].locals.promptObject = promptObject
       /\ LET keysToRemove == SaveKeysToRemove(inFlight[1].locals.allItems, BaseKey(promptObject.id))
          IN IF keysToRemove # {}
             THEN /\ store' = StorageRemove(store, keysToRemove)
                  /\ inFlight' = SuspendAgain(1, "remove")
                  /\ UNCHANGED faulted
             ELSE FirstSet(1)
       /\ UNCHANGED <<lastOp, steps, saveStepFrame>>
    \/ /\ inFlight # <<>>
       /\ inFlight[1].at = "remove"
       /\ inFlight[1].locals.promptObject = promptObject
       /\ FirstSet(1)
       /\ UNCHANGED <<lastOp, steps, saveStepFrame>>
    \/ /\ inFlight # <<>>
       /\ inFlight[1].at = "set dataToSave"
       /\ inFlight[1].locals.promptObject = promptObject
       /\ inFlight' = Tail(inFlight)
       /\ UNCHANGED <<store, lastOp, faulted, steps, saveStepFrame>>
    \/ /\ inFlight # <<>>
       /\ inFlight[1].at = "set chunkToSave"
       /\ inFlight[1].locals.promptObject = promptObject
       /\ LET baseKey == BaseKey(promptObject.id)
              chunks == SplitChunks(promptObject.text, 0)
              i == inFlight[1].locals.i
              chunkKey == ChunkKey(baseKey, i)
          IN IF i >= Len(chunks)
             THEN /\ inFlight' = Tail(inFlight)
                  /\ UNCHANGED <<store, faulted>>
             ELSE IF ByteLength(chunks[i + 1]) >= QUOTA_BYTES_PER_ITEM - Len(chunkKey)
             THEN /\ inFlight' = Tail(inFlight)
                  /\ faulted' = TRUE
                  /\ UNCHANGED store
             ELSE /\ store' = StorageSet(store, chunkKey, [str |-> chunks[i + 1]])
                  /\ inFlight' = Append(Tail(inFlight), [inFlight[1] EXCEPT !.locals.i = i + 1])
                  /\ UNCHANGED faulted
       /\ UNCHANGED <<lastOp, steps, saveStepFrame>>

OverlapInputs ==
    {[id |-> i, title |-> <<"a">>, text |-> x] : i \in {<<"1">>, <<"2">>},
                                                  x \in {ShortText, TwoChunkText, ThreeChunkText}}

NextOverlap == \E p \in OverlapInputs : SavePromptSteps(p)

SpecOverlap == InitSave /\ [][NextOverlap]_vars

-----------------------------------------------------------------------------
(* Forced version checks that overlap on one VersionChecker instance, as when
   the worker's onStartup and onInstalled listeners both fire: neither
   listener awaits its forceCheckVersion() *)

forceFrame == <<store, local, currentPrompts, currentEditingId, view, lastOp, faulted, steps, timeVars,
                exportedFile, moreImages, workerVars, editorVars, pendingButton, clipboard, checks>>

\* forceCheckVersion(), suspended in checkVersion() at the storage read of
\* shouldCheck() and at the fetch of the registry; the reads and writes that
\* follow a fetched registry settle when the call resumes from the fetch
ForceCheckVersionSteps(fetchResult, latest) ==
    \/ /\ Len(inFlight) < MaxInFlight
       /\ inFlight' = Append(inFlight, Task("forceCheckVersion", "shouldCheck",
                                 [originalCheckInterval |-> checkInterval]))
       /\ checkInterval' = 0
       /\ UNCHANGED <<lastVersionCheck, latestVersion, badge, forceFrame>>
    \/ \E i \in SuspendedAt("forceCheckVersion", "shouldCheck") :
          /\ IF shouldCheck(lastVersionCheck, clock, checkInterval)
             THEN /\ inFlight' = SuspendAgain(i, "fetch")
                  /\ UNCHANGED checkInterval
             ELSE /\ inFlight' = RemoveAt(inFlight, i)
                  /\ checkInterval' = inFlight[i].locals.originalCheckInterval
          /\ UNCHANGED <<lastVersionCheck, latestVersion, badge, forceFrame>>
    \/ \E i \in SuspendedAt("forceCheckVersion", "fetch") :
          /\ lastVersionCheck' = IF fetchResult = "ok" THEN clock ELSE lastVersionCheck
          /\ latestVersion' = storeLatestVersion(latestVersion, fetchResult = "ok", latest)
          /\ badge' = showUpdateNotification(badge, fetchResult = "ok", ManifestVersion, latest)
          /\ checkInterval' = inFlight[i].locals.originalCheckInterval
          /\ inFlight' = RemoveAt(inFlight, i)
          /\ UNCHANGED forceFrame

NextForce ==
    \/ inFlight = <<>> /\ Tick
    \/ \E fetchResult \in FetchResults : inFlight = <<>> /\ CheckVersionCall(fetchResult)
    \/ \E fetchResult \in FetchResults, latest \in RegistryVersions : ForceCheckVersionSteps(fetchResult, latest)

SpecForce == Init /\ [][NextForce]_vars

-----------------------------------------------------------------------------
(* getAllPrompts on arbitrary store content, as another device or an older
   version of the extension may have left it in chrome.storage.sync *)

StoreEntry(key, value) == [key |-> key, value |-> value]

ArbitraryEntries ==
    { \* a well-formed single item and a well-formed chunked prompt's metadata
      StoreEntry(<<"prompt_", "1">>, [id |-> <<"1">>, title |-> <<"Z">>, text |-> ShortText]),
      StoreEntry(<<"prompt_", "2">>, [id |-> <<"2">>, title |-> <<"a">>, chunkCount |-> 2]),
      \* its chunks: present, or chunk 1 not a string
      StoreEntry(<<"prompt_", "2", "_chunk_", "0">>, [str |-> <<"a", "b", "c">>]),
      StoreEntry(<<"prompt_", "2", "_chunk_", "1">>, [str |-> <<"d">>]),
      StoreEntry(<<"prompt_", "2", "_chunk_", "1">>, [number |-> 7]),
      \* a base entry with neither text nor chunkCount
      StoreEntry(<<"prompt_", "1", "-x">>, [id |-> <<"1", "-x">>, title |-> <<"M">>]),
      \* a chunk without metadata, and a chunk key without an index
      StoreEntry(<<"prompt_", "3", "_chunk_", "0">>, [str |-> <<"a">>]),
      StoreEntry(<<"prompt_", "2", "_chunk_", "x">>, [str |-> <<"a">>]),
      \* a base entry without title
      StoreEntry(<<"prompt_", "2", "-x">>, [id |-> <<"2", "-x">>, text |-> ShortText]) }

\* the store contents made of these entries, no key twice
ArbitraryStores ==
    {[k \in {e.key : e \in es} |-> (CHOOSE e \in es : e.key = k).value] :
        es \in {S \in SUBSET ArbitraryEntries : \A e1, e2 \in S : e1.key = e2.key => e1 = e2}}

InitArbitrary ==
    /\ store \in ArbitraryStores
    /\ local = [index |-> <<>>, bodies |-> NoBodies]
    /\ currentPrompts = <<>>
    /\ currentEditingId = NoId
    /\ view = InitialDisplay
    /\ lastOp = [op |-> "init"]
    /\ faulted = FALSE
    /\ steps = 0
    /\ InitSession

NextArbitrary == GetAllPromptsCall

SpecArbitrary == InitArbitrary /\ [][NextArbitrary]_vars

-----------------------------------------------------------------------------
(* Properties of the storage manager *)

SaveSucceeded == lastOp.op = "savePrompt" /\ lastOp.error = "none"
DeleteSucceeded == lastOp.op = "deletePrompt" /\ lastOp.error = "none"
SavedPrompt == lastOp.saved[1]

\* the number of MAX_CHUNK_LENGTH-character pieces of a text
PieceCount(text) == (Len(text) + MAX_CHUNK_LENGTH - 1) \div MAX_CHUNK_LENGTH

\* the entries a save of prompt p is meant to leave for p.id
ExpectedKeys(p) ==
    IF Len(p.text) <= MAX_CHUNK_LENGTH THEN {BaseKey(p.id)}
    ELSE {BaseKey(p.id)} \cup {ChunkKey(BaseKey(p.id), i) : i \in 0..(PieceCount(p.text) - 1)}

\* result lists prompt p (id, title and text) exactly once and no other prompt with its id
ReturnsExactly(result, p) ==
    /\ Cardinality({i \in 1..Len(result) : result[i].id = p.id}) = 1
    /\ \E i \in 1..Len(result) : result[i] = [id |-> p.id, title |-> p.title, text |-> p.text]

\* C1: a prompt whose text is longer than MAX_CHUNK_LENGTH, once saved
\* successfully, is returned by getAllPrompts with the identical text.
C1_ChunkRoundTrip ==
    (SaveSucceeded /\ Len(SavedPrompt.text) > MAX_CHUNK_LENGTH)
        => \A result \in GetAllPrompts(store) : ReturnsExactly(result, SavedPrompt)

C1_Witness ==
    /\ SaveSucceeded
    /\ SavedPrompt.text = ThreeChunkText
    /\ Cardinality(ChunkKeysOf(store, SavedPrompt.id)) = 3

\* C2: after a successful save the store holds for the id exactly the entries
\* of that save (no chunk key beyond its chunkCount, none at all for a
\* single item), and getAllPrompts returns the saved text for the id.
C2_NoOrphansAfterSave ==
    SaveSucceeded =>
        /\ KeysOf(store, SavedPrompt.id) = ExpectedKeys(SavedPrompt)
        /\ \A result \in GetAllPrompts(store) : ReturnsExactly(result, SavedPrompt)

C2_Witness ==
    /\ SaveSucceeded
    /\ lastOp.chunksBefore = 3
    /\ Len(SavedPrompt.text) <= MAX_CHUNK_LENGTH

\* C3: after deletePrompt(id) completes on a prompt stored in chunks, no
\* entry has the base key or the base key followed by the separator, and
\* getAllPrompts returns no prompt with that id.
C3_DeleteRemovesAllChunks ==
    (DeleteSucceeded /\ lastOp.chunksBefore > 0) =>
        /\ KeysOf(store, lastOp.id) = {}
        /\ \A result \in GetAllPrompts(store) : \A i \in 1..Len(result) : result[i].id # lastOp.id

C3_Witness == DeleteSucceeded /\ lastOp.chunksBefore = 3

IsBaseKey(k) == StartsWith(k, <<PROMPT_KEY_PREFIX>>) /\ ~Includes(k, CHUNK_KEY_SEPARATOR)

WellFormed(items, k) ==
    \/ HasOwnProperty(items[k], "text")
    \/ /\ HasOwnProperty(items[k], "chunkCount")
       /\ items[k].chunkCount > 0
       /\ \A i \in 0..(items[k].chunkCount - 1) :
             /\ ChunkKey(k, i) \in DOMAIN items
             /\ IsStringValue(items[ChunkKey(k, i)])

\* C4: while every savePrompt and deletePrompt call has completed without
\* error, every base entry carries text or a positive chunkCount with a
\* string chunk for every index below it.
C4_BaseEntriesWellFormed ==
    ~faulted => \A k \in DOMAIN store : IsBaseKey(k) => WellFormed(store, k)

C4_Witness ==
    /\ ~faulted
    /\ DeleteSucceeded
    /\ \E k \in DOMAIN store : IsBaseKey(k) /\ HasOwnProperty(store[k], "chunkCount")
    /\ \E k \in DOMAIN store : IsBaseKey(k) /\ HasOwnProperty(store[k], "text")

\* C6: the text length alone decides the stored shape: up to
\* MAX_CHUNK_LENGTH characters, one entry under the base key with text and
\* no chunkCount; beyond, a base entry without text whose chunkCount is the
\* number of pieces.
C6_ShapeByLength ==
    SaveSucceeded =>
        LET p == SavedPrompt
            entry == store[BaseKey(p.id)]
        IN /\ BaseKey(p.id) \in DOMAIN store
           /\ IF Len(p.text) <= MAX_CHUNK_LENGTH
              THEN /\ KeysOf(store, p.id) = {BaseKey(p.id)}
                   /\ entry = [id |-> p.id, title |-> p.title, text |-> p.text]
              ELSE /\ ~HasOwnProperty(entry, "text")
                   /\ HasOwnProperty(entry, "chunkCount")
                   /\ entry.chunkCount = PieceCount(p.text)

C6_Witness ==
    /\ SaveSucceeded
    /\ Len(SavedPrompt.text) = MAX_CHUNK_LENGTH
    /\ \E k \in DOMAIN store : IsBaseKey(k) /\ HasOwnProperty(store[k], "chunkCount")
                                 /\ store[k].chunkCount = 2

IsSortedByTitle(result) ==
    \A i, j \in 1..Len(result) : i < j => LocaleCompare(result[i].title, result[j].title) <= 0

WellFormedIds(items) == {items[k].id : k \in {b \in DOMAIN items : IsBaseKey(b) /\ WellFormed(items, b)}}

\* C7: getAllPrompts returns the prompts in ascending order of title, and
\* every well-formed stored prompt exactly once.
C7_SortedAndComplete ==
    \A result \in GetAllPrompts(store) :
        /\ IsSortedByTitle(result)
        /\ {result[i].id : i \in 1..Len(result)} = WellFormedIds(store)
        /\ Len(result) = Cardinality(WellFormedIds(store))

C7_Witness ==
    /\ lastOp.op = "getAllPrompts"
    /\ Len(lastOp.result) = 2
    /\ lastOp.result[1].title # lastOp.result[2].title
    /\ \E k \in DOMAIN store : IsBaseKey(k) /\ ~WellFormed(store, k)

-----------------------------------------------------------------------------
(* Properties of the popup and of the backup manager *)

Titles(result) == {result[i].title : i \in 1..Len(result)}

\* C8: no two prompts in the store have the same title.
C8_TitlesUnique ==
    \A result \in GetAllPrompts(store) : Cardinality(Titles(result)) = Len(result)

RestoreCompleted ==
    /\ lastOp.op = "restoreBackup"
    /\ lastOp.error = "none"
    /\ lastOp.proceed
    /\ lastOp.failed = 0

\* C9: after a confirmed restore in which every storage call succeeded,
\* getAllPrompts returns exactly the prompts of the snapshot.
C9_RestoreReplaces ==
    RestoreCompleted =>
        \A result \in GetAllPrompts(store) : Range(result) = Range(local.bodies[lastOp.key])

\* C10: a restore whose confirmation is declined returns a cancelled result
\* and changes neither the prompt store nor the backup storage.
C10_DeclinedRestoreIsNoOp ==
    [][(lastOp'.op = "restoreBackup" /\ lastOp'.error = "none" /\ ~lastOp'.proceed)
          => (lastOp'.cancelled /\ store' = store /\ local' = local)]_vars

C10_Witness ==
    /\ lastOp.op = "restoreBackup"
    /\ ~lastOp.proceed
    /\ lastOp.cancelled
    /\ Len(currentPrompts) = 2
    /\ Range(currentPrompts) # Range(local.bodies[lastOp.key])

-----------------------------------------------------------------------------
(* Properties of getAllPrompts on arbitrary store content *)

\* a base entry that is a prompt object and carries text or all its chunks
WellFormedPromptKeys(items) ==
    {k \in DOMAIN items : /\ IsBaseKey(k)
                          /\ IsObject(items[k])
                          /\ IdOf(items[k]) # NoId
                          /\ WellFormed(items, k)}

\* C5: for any store content getAllPrompts returns a list that leaves out
\* the entries with a missing or non-string chunk, those with neither text
\* nor chunkCount and the chunks without metadata, and that holds every
\* well-formed prompt of the store.
C5_SkipsCorruptKeepsWellFormed ==
    \A result \in GetAllPrompts(store) :
        {result[i].id : i \in 1..Len(result)} = {store[k].id : k \in WellFormedPromptKeys(store)}

-----------------------------------------------------------------------------
(* The daily backups *)

IndexKeys(loc) == {readIndex(loc)[i].key : i \in 1..Len(readIndex(loc))}

\* the keys of the MAX_BACKUPS most recent of the entries indexed so far
MostRecentIndexed ==
    {k \in DOMAIN indexed : Cardinality({j \in DOMAIN indexed : indexed[j] > indexed[k]}) < MAX_BACKUPS}

\* C11: after any sequence of backupToday calls over any number of days the
\* index holds at most MAX_BACKUPS entries, they are the MAX_BACKUPS most
\* recent by timestamp of the entries indexed so far, and no snapshot body of
\* an entry pruned from the index is left in local storage.
C11_IndexPrunesToSeven ==
    /\ Len(readIndex(local)) <= MAX_BACKUPS
    /\ IndexKeys(local) = MostRecentIndexed
    /\ \A i \in 1..Len(readIndex(local)) : readIndex(local)[i].timestamp = indexed[readIndex(local)[i].key]
    /\ \A k \in (DOMAIN indexed) \ IndexKeys(local) : k \notin DOMAIN local.bodies
    /\ \A k \in IndexKeys(local) : k \in DOMAIN local.bodies

C11_Witness ==
    /\ lastOp.op = "backupToday"
    /\ Cardinality(DOMAIN indexed) >= MAX_BACKUPS + 2
    /\ Len(readIndex(local)) = MAX_BACKUPS

\* C12: the index never holds two entries with the same day key; a backupToday
\* call on a day that already has an entry refreshes that entry's timestamp
\* and count and overwrites the day's snapshot body, and the number of index
\* entries stays what it was.
C12_OneEntryPerDay ==
    /\ \A i, j \in 1..Len(readIndex(local)) :
          readIndex(local)[i].key = readIndex(local)[j].key => i = j
    /\ (lastOp.op = "backupToday" /\ lastOp.existed) =>
          /\ Len(readIndex(local)) = lastOp.lengthBefore
          /\ \E i \in 1..Len(readIndex(local)) :
                readIndex(local)[i] = [key |-> lastOp.key, timestamp |-> lastOp.timestamp,
                                       count |-> Len(lastOp.snapshot)]
          /\ local.bodies[lastOp.key] = lastOp.snapshot

C12_Witness ==
    /\ lastOp.op = "backupToday"
    /\ lastOp.existed
    /\ lastOp.previous[1].timestamp < lastOp.timestamp
    /\ lastOp.previous[1].count # Len(lastOp.snapshot)
    /\ Len(readIndex(local)) = MAX_BACKUPS

-----------------------------------------------------------------------------
(* Import and export *)

ImportCompleted == lastOp.op = "handleFileImport" /\ lastOp.entries # <<>>

\* the entries of the file whose prompt was saved, by position
AcceptedEntries == {i \in 1..Len(lastOp.entries) : BaseKey(lastOp.newIds[i]) \in DOMAIN store}

AcceptedTitle(i) == store[BaseKey(lastOp.newIds[i])].title

IsSuffixedTitle(newTitle, title) ==
    \/ newTitle = title
    \/ \E n \in 2..5 : newTitle = title \o <<SuffixToken(n)>>

\* C13: import gives every accepted entry a title distinct from all titles
\* stored before the import and from all titles accepted earlier in the same
\* file, the title being the entry's own (trimmed) title or that title with
\* " (2)", " (3)", ... appended; the prompts stored before keep their titles.
C13_ImportTitlesDistinct ==
    ImportCompleted =>
        /\ \A i \in AcceptedEntries :
              /\ AcceptedTitle(i) \notin Titles(lastOp.existing)
              /\ \A j \in AcceptedEntries : j < i => AcceptedTitle(j) # AcceptedTitle(i)
              /\ IsSuffixedTitle(AcceptedTitle(i), lastOp.entries[i].title)
        /\ \A e \in 1..Len(lastOp.existing) :
              /\ BaseKey(lastOp.existing[e].id) \in DOMAIN store
              /\ store[BaseKey(lastOp.existing[e].id)].title = lastOp.existing[e].title

\* "a" is stored and the file holds two entries titled "a": they become
\* "a (2)" and "a (3)"
C13_Witness ==
    /\ ImportCompleted
    /\ Titles(lastOp.existing) = {<<"a">>}
    /\ Len(lastOp.entries) = 2
    /\ AcceptedEntries = {1, 2}
    /\ AcceptedTitle(1) = <<"a", " (2)">>
    /\ AcceptedTitle(2) = <<"a", " (3)">>

Pairs(prompts) == {[title |-> prompts[i].title, text |-> prompts[i].text] : i \in 1..Len(prompts)}

\* the exported file has just been imported into a store that listed no prompt
RoundTripCompleted ==
    /\ ImportCompleted
    /\ lastOp.file = exportedFile
    /\ lastOp.existing = <<>>

\* C14: exporting the full prompt list and importing that exact file into an
\* empty store yields a store whose set of {title, text} pairs equals the
\* exported one, for every prompt list the store can hold.
C14_ExportImportRoundTrip ==
    RoundTripCompleted => Pairs(currentPrompts) = Pairs(exportedFile)

-----------------------------------------------------------------------------
(* The pending image *)

StoresIn(log) == {i \in 1..Len(log) : log[i].action = "storeImageForCopy"}
ClearsIn(log) == {i \in 1..Len(log) : log[i].action = "clearStoredImage"}

\* the payload of the most recent store of the log when no clear came after
\* it, as a sequence of at most one element
PendingAfter(log) ==
    IF StoresIn(log) = {} THEN <<>>
    ELSE LET last == CHOOSE i \in StoresIn(log) : \A j \in StoresIn(log) : j <= i IN
         IF \E c \in ClearsIn(log) : c > last THEN <<>>
         ELSE <<[dataURI |-> log[last].dataURI, mimeType |-> log[last].mimeType,
                 associatedPromptTitle |-> log[last].associatedPromptTitle]>>

\* C15: for any sequence of store, retrieve, clear and unrecognized messages
\* the worker holds at most one pending image; retrieve answers success with
\* the payload of the most recent store when no clear came after it and
\* success:false otherwise; retrieve and unrecognized actions leave the slot
\* unchanged.
C15_OnePendingImage ==
    /\ Len(pendingImageForCopy) <= 1
    /\ pendingImageForCopy = PendingAfter(msgs)
    /\ lastOp.op = "onMessage" =>
          LET before == PendingAfter(SubSeq(msgs, 1, Len(msgs) - 1)) IN
          /\ lastOp.request.action = "retrieveImageForCopy" =>
                /\ lastOp.response.success = (before # <<>>)
                /\ before # <<>> => lastOp.response.data = before
          /\ lastOp.request.action \notin {"storeImageForCopy", "clearStoredImage"} =>
                pendingImageForCopy = lastOp.slotBefore

\* a second store replaced the first and a retrieve answered with the second
C15_Witness ==
    /\ lastOp.op = "onMessage"
    /\ lastOp.request.action = "retrieveImageForCopy"
    /\ Cardinality(StoresIn(msgs)) = 2
    /\ lastOp.response.success
    /\ lastOp.response.data[1].dataURI = JpegB

ClearingHandlers ==
    {"handleSelectPrompt", "handleEditPrompt", "handleAddPromptClick", "handleCancelAddEditClick",
     "handleBackToListClick", "handleDeletePrompt", "handlePasteOnUserInput", "handlePendingImageCopy"}

\* one of the handlers of C16 has completed while the worker was reachable;
\* a delete counts when the user confirmed it
ListedHandlerCompleted ==
    /\ lastOp.op \in ClearingHandlers
    /\ lastOp.reachable
    /\ lastOp.op = "handleDeletePrompt" => lastOp.error # "declined"

\* C16 as stated: when the worker is reachable the pending-image slot is empty
\* once any of these handlers has completed: select, start edit, start add,
\* cancel, back to list, a confirmed delete, a paste into the editor, a
\* successful pending-image copy.
C16_SlotEmptyAfterHandlers == ListedHandlerCompleted => pendingImageForCopy = <<>>

\* C16 as amended: the same, for a confirmed delete whose deletePrompt
\* succeeded and for a paste whose event carries clipboard data.
C16_SlotEmptyAfterClearingHandlers ==
    ( /\ ListedHandlerCompleted
      /\ lastOp.op = "handleDeletePrompt" => lastOp.error = "none"
      /\ lastOp.op = "handlePasteOnUserInput" => lastOp.kind # "none" )
    => pendingImageForCopy = <<>>

\* a first-step copy has handed an image over and the user, back in the list
\* after a reopen, has deleted a prompt
C16_Witness ==
    /\ lastOp.op = "handleDeletePrompt"
    /\ lastOp.error = "none"
    /\ lastOp.reachable
    /\ clipboard # <<>>
    /\ clipboard[1].writer = "handleCopyOutputClick"
    /\ Includes(clipboard[1].item[TextPlain], "User pasted an image, check artifacts")
    /\ pendingImageForCopy = <<>>

PendingImageCopyOutcomes ==
    {"handlePendingImageCopy", "handlePendingImageCopy: no worker", "handlePendingImageCopy: data lost",
     "handlePendingImageCopy: not processed", "handlePendingImageCopy: write failed"}

\* the popup has been initialized while an image handed over by a first-step
\* copy was neither cleared nor lost to a restart of the worker
ReopenedAfterCopy == lastOp.op = "initializePopup" /\ stagedAtCopy # <<>>

ButtonOffers(dataURI) ==
    /\ pendingButton # <<>>
    /\ ~pendingButton[1].disabled
    /\ pendingButton[1].data.dataURI = dataURI

\* the clipboard holds one entry, the image of the data URI under its type
ClipboardHoldsImage(dataURI) ==
    /\ clipboard # <<>>
    /\ clipboard[1].writer = "handlePendingImageCopy"
    /\ DOMAIN clipboard[1].item = {parseDataURI(dataURI)[1].mimeType}
    /\ clipboard[1].item[parseDataURI(dataURI)[1].mimeType] = parseDataURI(dataURI)[1].base64Data

ButtonCopied == pendingButton # <<>> /\ pendingButton[1].disabled

\* C17 as stated, in its parts that one run of the handlers decides: after a
\* first-step copy with a fully processed image whose handoff succeeds, with
\* no clear and no worker restart in between, the next popup initialization
\* shows the copy-pending-image button, and activating it writes a clipboard
\* entry holding the image staged at copy time and empties the slot.
C17_TwoStepCopy ==
    /\ ReopenedAfterCopy => ButtonOffers(stagedAtCopy[1])
    /\ (lastOp.op \in PendingImageCopyOutcomes /\ lastOp.staged # <<>>) =>
          /\ ClipboardHoldsImage(lastOp.staged[1])
          /\ pendingImageForCopy = <<>>

\* C17 as amended: the same when the worker is reachable at the initialization
\* and at the activation and the clipboard write of the activation succeeds;
\* the button is then eventually removed.
C17_TwoStepCopyWhenWriteSucceeds ==
    /\ []((ReopenedAfterCopy /\ lastOp.reachable) => ButtonOffers(stagedAtCopy[1]))
    /\ []((lastOp.op = "handlePendingImageCopy" /\ lastOp.staged # <<>>) =>
            /\ ClipboardHoldsImage(lastOp.staged[1])
            /\ pendingImageForCopy = <<>>)
    /\ (ButtonCopied ~> ~ButtonCopied)

\* the image pasted under prompt "a" has been copied by the button of the
\* reopened popup and the button is gone
C17_Witness ==
    /\ lastOp.op = "handlePendingImageCopy"
    /\ lastOp.staged = <<PngA>>
    /\ ClipboardHoldsImage(PngA)
    /\ pendingImageForCopy = <<>>
    /\ pendingButton = <<>>

-----------------------------------------------------------------------------
(* The clipboard writes *)

IsImageType(type) == type[1] = "image/"
IsTextType(type) == type[1] = "text/"

\* C18: every clipboard write made by the copy handler carries exactly the two
\* representations text/html and text/plain and never an image-typed entry;
\* every clipboard write made by the pending-image handler carries exactly one
\* image-typed entry and no text.
C18_ClipboardRepresentations ==
    clipboard # <<>> =>
        /\ clipboard[1].writer = "handleCopyOutputClick" =>
              /\ DOMAIN clipboard[1].item = {TextHtml, TextPlain}
              /\ \A type \in DOMAIN clipboard[1].item : ~IsImageType(type)
        /\ clipboard[1].writer = "handlePendingImageCopy" =>
              /\ Cardinality(DOMAIN clipboard[1].item) = 1
              /\ \A type \in DOMAIN clipboard[1].item : IsImageType(type) /\ ~IsTextType(type)

\* the button of the reopened popup has written the image of the second paste
C18_Witness ==
    /\ lastOp.op = "handlePendingImageCopy"
    /\ clipboard # <<>>
    /\ clipboard[1].writer = "handlePendingImageCopy"
    /\ DOMAIN clipboard[1].item = {<<"image/", "jpeg">>}

CopyCompleted == lastOp.op = "handleCopyOutputClick" /\ clipboard # <<>>

PlainTextWritten == clipboard[1].item[TextPlain]

\* the tokens of s between the first occurrences of two markers
Between(s, from, to) == SubSeq(s, IndexOf(s, from) + 1, IndexOf(s, to) - 1)

\* C19: the plain-text payload built by the copy handler is, in order, the
\* system-prompt block (begin token, prompt text, end token), then the
\* user-text block if and only if the trimmed user text is non-empty, then
\* the [[[user input]]] image block if and only if an image is present in the
\* editor; with no image there is no [[[user input]]] block.
C19_PlainTextPayloadOrder ==
    CopyCompleted =>
        LET plain == PlainTextWritten
            hasText == Trim(userInput.text) # <<>>
            hasImage == userInput.img # <<>>
            systemEnd == IndexOf(plain, "[[[system prompt end]]]")
            textBegin == IndexOf(plain, "[[[user input text begin]]]")
            textEnd == IndexOf(plain, "[[[user input text end]]]")
            imageBegin == IndexOf(plain, "[[[user input]]]")
            imageEnd == IndexOf(plain, "[[[user input end]]]")
        IN /\ plain[1] = "[[[system prompt begin]]]"
           /\ systemEnd > 1
           /\ Between(plain, "[[[system prompt begin]]]", "[[[system prompt end]]]")
                 = <<"\n\n">> \o selectedSystemPromptText \o <<"\n\n">>
           /\ (textBegin > 0) = hasText
           /\ (textEnd > 0) = hasText
           /\ hasText =>
                 /\ systemEnd < textBegin /\ textBegin < textEnd
                 /\ Between(plain, "[[[user input text begin]]]", "[[[user input text end]]]")
                       = <<"\n\n">> \o Trim(userInput.text) \o <<"\n\n">>
           /\ (imageBegin > 0) = hasImage
           /\ (imageEnd > 0) = hasImage
           /\ hasImage =>
                 /\ systemEnd < imageBegin /\ textEnd < imageBegin /\ imageBegin < imageEnd
                 /\ imageEnd = Len(plain)
           /\ ~hasImage => (IF hasText THEN textEnd ELSE systemEnd) = Len(plain)

\* a copy of text typed next to a pasted image: all three blocks
C19_Witness ==
    /\ CopyCompleted
    /\ clipboard[1].writer = "handleCopyOutputClick"
    /\ Trim(userInput.text) # <<>>
    /\ userInput.img # <<>>
    /\ Len(PlainTextWritten) > 10

-----------------------------------------------------------------------------
(* The version check *)

\* calls i and i + 1 are checkVersion calls in immediate succession, the
\* first of them due
TwoChecksInSuccession(i) ==
    /\ i \in 1..(Len(checks) - 1)
    /\ checks[i].op = "checkVersion"
    /\ checks[i].fetched
    /\ checks[i + 1].op = "checkVersion"

ForcedChecksFetch == \A i \in 1..Len(checks) : checks[i].op = "forceCheckVersion" => checks[i].fetched

\* C20 as stated: calling checkVersion twice in immediate succession performs
\* exactly one network fetch, the second call being stopped by the rate
\* limit; a forceCheckVersion called immediately afterwards performs a
\* further fetch regardless of the time elapsed.
C20_RateLimit ==
    /\ \A i \in 1..Len(checks) : TwoChecksInSuccession(i) => ~checks[i + 1].fetched
    /\ ForcedChecksFetch

\* C20 as amended: the same when the fetch of the first call returns a
\* registry that has an entry for the extension.
C20_RateLimitAfterRecordedCheck ==
    /\ \A i \in 1..Len(checks) :
          (TwoChecksInSuccession(i) /\ checks[i].entry) => ~checks[i + 1].fetched
    /\ ForcedChecksFetch

\* a check that fetched, a check stopped by the rate limit, a forced check
\* that fetched, with no time passing in between
C20_Witness ==
    /\ Len(checks) = 3
    /\ checks[1] = [op |-> "checkVersion", fetched |-> TRUE, entry |-> TRUE]
    /\ checks[2] = [op |-> "checkVersion", fetched |-> FALSE, entry |-> FALSE]
    /\ checks[3].op = "forceCheckVersion" /\ checks[3].fetched

-----------------------------------------------------------------------------
(* The comparison of versions *)

Compared == lastOp.op = "isOutdated"

\* the four numbers of a version in the format YY.MM.DD.HHMM
TimestampFields(version) ==
    <<10 * DigitValue(version[1]) + DigitValue(version[2]),
      10 * DigitValue(version[4]) + DigitValue(version[5]),
      10 * DigitValue(version[7]) + DigitValue(version[8]),
      1000 * DigitValue(version[10]) + 100 * DigitValue(version[11])
          + 10 * DigitValue(version[12]) + DigitValue(version[13])>>

\* year, month, day and time of a are later than those of b
ChronologicallyLater(a, b) ==
    \E i \in 1..4 :
        /\ TimestampFields(a)[i] > TimestampFields(b)[i]
        /\ \A j \in 1..(i - 1) : TimestampFields(a)[j] = TimestampFields(b)[j]

BothTimestamps == isTimestampVersion(lastOp.current) /\ isTimestampVersion(lastOp.latest)

\* C21: for any two versions in the timestamp format, isOutdated(current,
\* latest) is true exactly when latest is chronologically later than current;
\* it is false for equal versions and never true in both directions.
C21_TimestampOrder ==
    (Compared /\ BothTimestamps) =>
        /\ lastOp.result = ChronologicallyLater(lastOp.latest, lastOp.current)
        /\ lastOp.current = lastOp.latest => ~lastOp.result
        /\ ~(lastOp.result /\ lastOp.swapped)

\* a later day of the same month, the earlier one with the later time of day
C21_Witness ==
    /\ Compared
    /\ BothTimestamps
    /\ lastOp.result
    /\ TimestampFields(lastOp.latest)[3] > TimestampFields(lastOp.current)[3]
    /\ TimestampFields(lastOp.latest)[4] < TimestampFields(lastOp.current)[4]

\* the number of components of a version
PartCount(version) == Len(Split(version, "."))

\* the i-th component as a number, 0 where the version has no i-th component
ComponentAt(version, i) ==
    IF i <= PartCount(version) THEN DecimalValue(Split(version, ".")[i], 0) ELSE 0

\* the first component in which the two differ is larger in latest
LargerAtFirstDifference(current, latest) ==
    \E i \in 1..(PartCount(current) + PartCount(latest)) :
        /\ ComponentAt(latest, i) > ComponentAt(current, i)
        /\ \A j \in 1..(i - 1) : ComponentAt(latest, j) = ComponentAt(current, j)

\* C22: for any two dot-separated numeric versions of possibly different
\* lengths, isOutdated(current, latest) is the comparison of the components
\* from the left with missing trailing components counted as 0.
C22_ComponentOrder ==
    Compared => lastOp.result = LargerAtFirstDifference(lastOp.current, lastOp.latest)

\* C22 for two versions that both have, or both lack, the timestamp format
C22_ComponentOrderSameFormat ==
    (Compared /\ isTimestampVersion(lastOp.current) = isTimestampVersion(lastOp.latest)) =>
        lastOp.result = LargerAtFirstDifference(lastOp.current, lastOp.latest)

\* two semantic versions of different lengths that agree on the shorter one
C22_Witness ==
    /\ Compared
    /\ ~isTimestampVersion(lastOp.current)
    /\ ~isTimestampVersion(lastOp.latest)
    /\ PartCount(lastOp.current) < PartCount(lastOp.latest)
    /\ \A i \in 1..PartCount(lastOp.current) :
          ComponentAt(lastOp.current, i) = ComponentAt(lastOp.latest, i)
    /\ lastOp.result

-----------------------------------------------------------------------------
(* The add/edit form and the views *)

\* only whitespace, or nothing at all
IsBlank(s) == \A i \in 1..Len(s) : s[i] = " "

\* C23: a save attempt whose trimmed title or trimmed text is empty makes no
\* call to the prompt store, raises the validation alert, leaves the cache
\* of prompts unchanged and leaves the EDIT view displayed.
C23_BlankSaveRejected ==
    [][\A t \in PopupTitleInputs, x \in PopupTextInputs, now \in Timestamps, fail \in 0..MaxFail :
          (SaveButtonClick(t, x, now, fail) /\ (IsBlank(t) \/ IsBlank(x)))
              => /\ lastOp'.op = "handleSavePrompt"
                 /\ lastOp'.error = "Validation"
                 /\ store' = store
                 /\ currentPrompts' = currentPrompts
                 /\ Displayed(VIEWS.EDIT)
                 /\ view' = view]_vars

\* the alert of the validation, with a prompt stored and the form still shown
C23_Witness ==
    /\ lastOp.op = "handleSavePrompt"
    /\ lastOp.error = "Validation"
    /\ Displayed(VIEWS.EDIT)
    /\ currentPrompts # <<>>

\* the views that are displayed
DisplayedViews == {id \in Range(viewIds) : view[id] = "block"}

\* C24: after every showView call exactly one of the views LIST, INPUT and
\* EDIT is displayed: the requested one when the identifier is recognized,
\* LIST when it is not; after the initialization of the popup it is LIST.
C24_OneViewDisplayed ==
    /\ lastOp.op = "showView" =>
          DisplayedViews = {IF lastOp.viewId \in Range(VIEWS) THEN lastOp.viewId ELSE VIEWS.LIST}
    /\ lastOp.op = "initializePopup" => DisplayedViews = {VIEWS.LIST}

-----------------------------------------------------------------------------
(* The order and the failures of a save *)

SaveCompleted == lastOp.op = "savePrompt"

\* the positions of the calls of a method in the calls of the save
CallsOf(method) == {i \in 1..Len(lastOp.calls) : lastOp.calls[i].method = method}

\* the positions of the writes of chunk entries
ChunkSets == {i \in CallsOf("set") : lastOp.calls[i].keys # {BaseKey(lastOp.id)}}

\* C25: within one savePrompt call the removal of the old entries of the id
\* has completed before the call writes its first new entry for that id, and
\* the metadata entry is written before any chunk entry.
C25_RemovalThenMetadataThenChunks ==
    SaveCompleted =>
        /\ \A j \in CallsOf("set") :
              /\ \A i \in CallsOf("remove") : i < j /\ ~lastOp.calls[i].rejected
              /\ lastOp.keysBefore # {} =>
                    \E i \in CallsOf("remove") : lastOp.keysBefore \subseteq lastOp.calls[i].keys
        /\ \A j \in ChunkSets :
              \E i \in CallsOf("set") :
                  /\ i < j
                  /\ lastOp.calls[i].keys = {BaseKey(lastOp.id)}
                  /\ ~lastOp.calls[i].rejected

\* a chunked prompt is saved over a stored chunked prompt
C25_Witness ==
    /\ SaveCompleted
    /\ lastOp.error = "none"
    /\ lastOp.chunksBefore > 0
    /\ Cardinality(ChunkSets) = 3
    /\ CallsOf("remove") # {}

\* the prompt objects and the ids C26 is about
MissingOrEmpty(p, field) == field \notin DOMAIN p \/ p[field] = <<>>
RejectedPromptObject(p) ==
    MissingOrEmpty(p, "id") \/ MissingOrEmpty(p, "title") \/ "text" \notin DOMAIN p \/ p.text = NotAString
RejectedPromptId(promptId) == promptId = NotAString \/ IsBlank(promptId)

\* the call failed with Invalid-Input, having made no storage call
InvalidInputUntouched ==
    /\ lastOp'.error = "InvalidInput"
    /\ lastOp'.calls = <<>>
    /\ store' = store

\* C26: savePrompt with a missing id, a missing or empty title or a
\* non-string text, and deletePrompt with a non-string or blank id, fail with
\* Invalid-Input before any read or write of the store, which is unchanged.
C26_InvalidInputBeforeStorage ==
    [][/\ \A p \in SaveInputs, fail \in (-MaxRejected)..MaxRejected :
             (RejectedPromptObject(p) /\ SavePromptCall(p, fail)) => InvalidInputUntouched
       /\ \A promptId \in DeleteInputs, fail \in 0..MaxRejected :
             (RejectedPromptId(promptId) /\ DeletePromptCall(promptId, fail)) => InvalidInputUntouched]_vars

\* an object with an id that the store holds entries for is turned down
C26_Witness ==
    /\ SaveCompleted
    /\ lastOp.error = "InvalidInput"
    /\ lastOp.keysBefore # {}
    /\ lastOp.calls = <<>>

\* C27: when savePrompt fails with Too-Large on the single-item path, the
\* store's entries for that id are the same after the failed call as before
\* it, so a previously saved version is still returned by getAllPrompts.
C27_TooLargeKeepsOldVersion ==
    [][\A p \in SaveInputs, fail \in (-MaxRejected)..MaxRejected :
          (/\ lastOp'.op = "savePrompt"
           /\ lastOp'.error = "TooLarge"
           /\ "text" \in DOMAIN p
           /\ Len(p.text) <= MAX_CHUNK_LENGTH
           /\ SavePromptCall(p, fail))
              => /\ KeysOf(store', p.id) = KeysOf(store, p.id)
                 /\ \A k \in KeysOf(store, p.id) : store'[k] = store[k]
                 /\ \A before \in GetAllPrompts(store), after \in GetAllPrompts(store') :
                       \A i \in 1..Len(before) :
                           before[i].id = p.id => \E j \in 1..Len(after) : after[j] = before[i]]_vars

\* the write of a chunk entry was rejected
RejectedChunkSets == {j \in ChunkSets : lastOp.calls[j].rejected}
ChunkWriteFailed == SaveCompleted /\ RejectedChunkSets # {}

\* the index of the chunk whose write was rejected
RejectedChunk ==
    CHOOSE i \in 0..Len(lastOp.calls) :
        \E j \in RejectedChunkSets : lastOp.calls[j].keys = {ChunkKey(BaseKey(lastOp.id), i)}

\* no chunk from the rejected one on is in the store, nothing is removed
\* after the cleanup, and the metadata entry and the earlier chunks stay
PartialSaveLeft ==
    /\ lastOp.failedChunk = RejectedChunk
    /\ ChunkKeysOf(store, lastOp.id) =
          {ChunkKey(BaseKey(lastOp.id), i) : i \in 0..(RejectedChunk - 1)}
    /\ \A i \in CallsOf("remove"), j \in CallsOf("set") : i < j
    /\ BaseKey(lastOp.id) \in DOMAIN store
    /\ HasOwnProperty(store[BaseKey(lastOp.id)], "chunkCount")

\* C28: when the write of chunk i fails during a chunked savePrompt, the call
\* raises an Inconsistent-Storage error naming the failed chunk, writes no
\* chunk with a higher index and removes nothing: the metadata entry and
\* chunks 0..i-1 stay in the store.
C28_ChunkFailureIsInconsistentStorage ==
    ChunkWriteFailed => (lastOp.error = "InconsistentStorage" /\ PartialSaveLeft)

\* C28 with the error the catch of the save phase rethrows: Quota-Exceeded
\* when the rejection names a quota, Inconsistent-Storage otherwise
C28_ChunkFailureLeavesPartialSave ==
    ChunkWriteFailed =>
        /\ lastOp.error = (IF lastOp.quota THEN "QuotaExceeded" ELSE "InconsistentStorage")
        /\ PartialSaveLeft

\* the write of the second chunk of three is rejected over a stored prompt
C28_Witness ==
    /\ ChunkWriteFailed
    /\ RejectedChunk = 1
    /\ lastOp.error = "InconsistentStorage"
    /\ lastOp.keysBefore # {}
    /\ ChunkKey(BaseKey(lastOp.id), 0) \in DOMAIN store

-----------------------------------------------------------------------------
(* The order and the counts of a restore *)

ConfirmedRestore ==
    /\ lastOp.op = "restoreBackup"
    /\ lastOp.error = "none"
    /\ lastOp.proceed

\* the positions of the attempts of a call in the attempts of the restore
AttemptsOf(call) == {i \in 1..Len(lastOp.attempts) : lastOp.attempts[i].call = call}

\* C29: within a confirmed restoreBackup the deletion of every current
\* prompt has been attempted before the first snapshot prompt is saved, and
\* a failed deletion stops neither the remaining deletions nor the saves.
C29_DeletionsBeforeSaves ==
    ConfirmedRestore =>
        /\ AttemptsOf("deletePrompt") = 1..Len(lastOp.current)
        /\ \A i \in 1..Len(lastOp.current) : lastOp.attempts[i].id = lastOp.current[i]
        /\ AttemptsOf("savePrompt") =
              (Len(lastOp.current) + 1)..(Len(lastOp.current) + Len(local.bodies[lastOp.key]))

\* the first of two deletions fails, and two prompts are saved after them
C29_Witness ==
    /\ ConfirmedRestore
    /\ Len(lastOp.current) = 2
    /\ ~lastOp.attempts[1].resolved
    /\ lastOp.attempts[2].resolved
    /\ Cardinality(AttemptsOf("savePrompt")) = 2

\* C30: a confirmed restoreBackup attempts to save every snapshot entry even
\* when earlier saves fail, and its result satisfies saved + failed = total =
\* the snapshot length, saved being the number of savePrompt calls that
\* succeeded.
C30_RestoreCounts ==
    ConfirmedRestore =>
        LET snapshot == local.bodies[lastOp.key]
            saves == SubSeq(lastOp.attempts, Len(lastOp.current) + 1, Len(lastOp.attempts))
        IN /\ Len(saves) = Len(snapshot)
           /\ \A i \in 1..Len(snapshot) :
                 saves[i].call = "savePrompt" /\ saves[i].id = snapshot[i].id
           /\ lastOp.total = Len(snapshot)
           /\ lastOp.saved + lastOp.failed = lastOp.total
           /\ lastOp.saved = Cardinality({i \in 1..Len(saves) : saves[i].resolved})

\* the first save fails and the second one succeeds
C30_Witness ==
    /\ ConfirmedRestore
    /\ lastOp.total = 2
    /\ lastOp.saved = 1
    /\ lastOp.failed = 1
    /\ ~lastOp.attempts[Len(lastOp.current) + 1].resolved
    /\ lastOp.attempts[Len(lastOp.current) + 2].resolved

-----------------------------------------------------------------------------
(* The editing id across failed saves *)

\* the save button listener has run on an edited prompt and the save failed
FailedSaveWhileEditing ==
    /\ Displayed(VIEWS.EDIT)
    /\ currentEditingId # NoId
    /\ steps' # steps
    /\ lastOp'.op = "handleSavePrompt"
    /\ lastOp'.error # "none"

\* C31: while an existing prompt X is being edited, a save attempt that
\* fails, by validation or by a storage error, leaves the editing id equal to
\* X, so that a following successful save overwrites X under the same id.
C31_FailedSaveKeepsEditingId ==
    [][FailedSaveWhileEditing => currentEditingId' = currentEditingId]_vars

-----------------------------------------------------------------------------
(* The cache of the prompt list *)

\* the handlers of the popup that change the prompt store
StoreHandlers == {"handleSavePrompt", "handleDeletePrompt", "handleFileImport", "restoreBackup"}

\* C32: whenever a popup handler that changes the prompt store (save, delete,
\* import, restore) has completed, currentPrompts equals what getAllPrompts
\* returns for the store at that moment, also when the store operation
\* failed part-way.
C32_CacheMatchesStore ==
    lastOp.op \in StoreHandlers => currentPrompts \in GetAllPrompts(store)

-----------------------------------------------------------------------------
(* A version check that finds no entry *)

\* the check made last found no entry: the fetch failed, answered with an
\* error status or a body that does not parse, or the registry lacks the entry
LastCheckFoundNoEntry ==
    /\ checks # <<>>
    /\ checks[Len(checks)].op = "checkVersion"
    /\ checks[Len(checks)].fetched
    /\ ~checks[Len(checks)].entry

\* C37: when the registry fetch fails, returns a non-success status, cannot
\* be parsed, or has no entry for this extension, checkVersion completes
\* without raising and leaves the recorded last-check timestamp, the cached
\* latest version and the badge unchanged.
C37_FailedCheckChangesNothing ==
    [][\A fetchResult \in FetchResults \ {"ok"} :
          CheckVersionCall(fetchResult) =>
              /\ Len(checks') = Len(checks) + 1
              /\ ~checks'[Len(checks')].entry
              /\ UNCHANGED <<lastVersionCheck, latestVersion, badge>>]_vars

\* a check finds no entry a day after one that cached a later version
C37_Witness ==
    /\ LastCheckFoundNoEntry
    /\ lastVersionCheck # 0
    /\ latestVersion = <<"3">>
    /\ badge = <<"!">>

-----------------------------------------------------------------------------
(* The frame of a save *)

\* the prompts a list holds for an id
PromptsOf(list, id) == {list[i] : i \in {j \in 1..Len(list) : list[j].id = id}}

\* the entries of the id and the prompt returned for it are as before
EntriesUntouched(id) ==
    /\ KeysOf(store', id) = KeysOf(store, id)
    /\ \A k \in KeysOf(store, id) : store'[k] = store[k]
    /\ \A before \in GetAllPrompts(store), after \in GetAllPrompts(store') :
          PromptsOf(after, id) = PromptsOf(before, id)

\* C38: savePrompt for id X changes only the entries of X: for every other
\* stored id Y, including an id that has X as a proper prefix, the entries of
\* Y and the prompt getAllPrompts returns for Y are the same after the call
\* as before it.
C38_SaveChangesOnlyItsId ==
    [][\A p \in PromptObjects, fail \in 0..MaxFail :
          SavePromptCall(p, fail) =>
              \A y \in StoredIds(store) \ {p.id} : EntriesUntouched(y)]_vars

-----------------------------------------------------------------------------
(* The worker's slot after a first-step copy *)

\* a first-step copy has written the clipboard and its handler has completed
FirstStepCopied == lastOp.op = "handleCopyOutputClick"

\* the slot holds the image staged at this copy
SlotHoldsCopiedImage ==
    /\ lastOp.canDoAdvancedImageCopy
    /\ locallyStagedImage # <<>>
    /\ pendingImageForCopy # <<>>
    /\ pendingImageForCopy[1].dataURI = locallyStagedImage[1].dataURI
    /\ pendingImageForCopy[1].mimeType = locallyStagedImage[1].mimeType

-----------------------------------------------------------------------------
(* Handlers that overlap *)

NoHandlerSuspended == inFlight = <<>>

\* C33: whenever the LIST or the EDIT view is displayed and no handler is
\* suspended, the locally staged image and currentPastedImageBase64 are empty,
\* also when the conversion of a pasted image finishes after the user has left
\* the INPUT view.
C33_NoStagedImageOutsideInput ==
    (Displayed(VIEWS.LIST) \/ Displayed(VIEWS.EDIT)) /\ NoHandlerSuspended
        => locallyStagedImage = <<>> /\ currentPastedImageBase64 = <<>>

\* C34: whenever the LIST view is displayed and no handler is suspended, the
\* editing id is absent, in every order in which the select, edit, add,
\* cancel, back and save handlers start and resume.
C34_NoEditingIdOnList ==
    Displayed(VIEWS.LIST) /\ NoHandlerSuspended => currentEditingId = NoId

\* C35: once every image paste has completed, the last handler started being
\* a paste, the editor holds at most one image and the staged image is that of
\* this most recent paste, also when it started during the conversion of the
\* paste before it.
C35_SecondPasteSupersedes ==
    lastOp.op = "handlePasteOnUserInput" /\ NoHandlerSuspended
        => /\ Len(EditorImages) <= 1
           /\ locallyStagedImage = processPastedImage(lastOp.file).staged

-----------------------------------------------------------------------------
(* savePrompt calls that overlap *)

\* two savePrompt calls for one id with different texts have both completed
TwoSavesCompleted ==
    /\ lastOp.op = "savePrompt"
    /\ Len(lastOp.calls) = 2
    /\ inFlight = <<>>
    /\ ~faulted
    /\ lastOp.calls[1].id = lastOp.calls[2].id
    /\ lastOp.calls[1].text # lastOp.calls[2].text

\* the two calls were suspended at the same time
SavesOverlapped == Len(inFlight) = 2

\* C39: when two savePrompt calls for one id with different texts have
\* interleaved at their storage calls and both completed, getAllPrompts
\* returns for the id the complete text of one of the two calls, and the store
\* holds no chunk entry of the id outside the chunkCount of that prompt.
C39_OverlappingSavesLeaveOneSave ==
    TwoSavesCompleted =>
        \A result \in GetAllPrompts(store) :
            \E p \in {lastOp.calls[1], lastOp.calls[2]} :
                /\ ReturnsExactly(result, p)
                /\ ChunkKeysOf(store, p.id) \subseteq ExpectedKeys(p)

-----------------------------------------------------------------------------
(* Forced version checks that overlap *)

NoForcedCheckInFlight == \A i \in 1..Len(inFlight) : inFlight[i].handler # "forceCheckVersion"

\* C40: once every forceCheckVersion call in flight on the instance has
\* settled, the check interval of the instance is back at 24 hours, also when
\* two forced checks overlapped, so that a following checkVersion is
\* rate-limited again.
C40_IntervalRestored == NoForcedCheckInFlight => checkInterval = checkIntervalHours

====
